---------------------------- MODULE Spec2Model ----------------------------
(***************************************************************************)
(* Verification model of the Costrict/ZGSM extension core:                 *)
(*   - the inline-completion pipeline (CompletionProvider,                 *)
(*     AutocompleteLoggingService, findMatchingSuggestion),                *)
(*   - TextAcceptanceTracker,                                              *)
(*   - VersionApi.shouldUpdate and FileDownloader,                         *)
(*   - ZgsmCodebaseIndexManager health check and status de-duplication.    *)
(* Strings are modelled as sequences of one-character strings.             *)
(***************************************************************************)
EXTENDS Integers, Sequences, FiniteSets, TLC

(***************************************************************************)
(* Bounds of the model                                                     *)
(***************************************************************************)
\* number of provideInlineCompletionItems calls in one behaviour
MaxRequests == 3
\* number of provideInlineCompletionItems calls in flight at the same time
MaxInFlight == 2
\* length of the strings findMatchingSuggestion is applied to
MaxStrLen == 3
\* highest version the edited document reaches
MaxVersion == 3
\* highest line / character of the positions handed to the tracker
MaxLine == 1
MaxCharacter == 2
\* highest value of a field of a version triple
MaxVersionField == 2
\* health-check callbacks in flight at once, and failed ticks in a row
MaxTicksInFlight == 2
MaxFailures == 5
\* getIndexStatus calls
MaxCalls == 3

\* InlineCompletionProvider.provideInlineCompletionItems calls in flight, and
\* suggestions shown
MaxProvideInFlight == 2
MaxShown == 3

\* startService: the accumulated wait is followed up to this many ms
MaxRetryTime == 360000

\* WorkspaceEventMonitor: handler calls that add events, and clock ticks of
\* TickMs after the monitor's construction
MaxMonitorEvents == 4
MaxMonitorTicks == 2

\* WorkspaceEventMonitor.sendEventsToServer: calls in flight, and publish
\* attempts followed per call
MaxSendsInFlight == 2
MaxPublishAttempts == 5

\* FileDownloader.downloadFileWithProgress: default of maxRetries
maxRetries == 3
\* ZgsmCodebaseIndexManager.MAX_FAILURE_COUNT
MAX_FAILURE_COUNT == 2
\* getIndexStatus: a completed result is reused for one second and kept five minutes
RECENT_MS == 1000
EXPIRY_MS == 300000
\* number of updateSuggestions calls of the history specification beyond
\* MAX_SUGGESTIONS_HISTORY
MaxExtraInserts == 2

(***************************************************************************)
(* Program constants                                                       *)
(***************************************************************************)
MAX_SUGGESTIONS_HISTORY == 20

\* maxRetries of the completion client (completionProvider.ts:103)
clientMaxRetries == 0

\* default of startClient's maxRetries parameter (part_003:315)
startMaxRetries == 3

(***************************************************************************)
(* String helpers (String.prototype.startsWith / substring)                *)
(***************************************************************************)
startsWith(s, p) == Len(p) <= Len(s) /\ SubSeq(s, 1, Len(p)) = p

substring(s, n) == SubSeq(s, n + 1, Len(s))

(***************************************************************************)
(* Input domains of the completion pipeline                                *)
(***************************************************************************)
\* (prefix, suffix) pairs a call can be made with
Inputs == { [prefix |-> <<>>, suffix |-> <<>>],
            [prefix |-> <<"a">>, suffix |-> <<>>],
            [prefix |-> <<"a">>, suffix |-> <<"z">>] }

\* the character U+FFFD
REPLACEMENT == "U+FFFD"

\* String.prototype.trim
RECURSIVE trim(_)
trim(s) ==
    IF s = <<>> THEN s
    ELSE IF Head(s) = " " THEN trim(Tail(s))
    ELSE IF s[Len(s)] = " " THEN trim(SubSeq(s, 1, Len(s) - 1))
    ELSE s

\* variant: the text is trimmed and returned as it came
acquireCompletionText_asReceived(choices) ==
    IF \A i \in 1..Len(choices) : trim(choices[i]) = <<>> THEN <<>>
    ELSE trim(choices[CHOOSE i \in 1..Len(choices) :
                         /\ trim(choices[i]) # <<>>
                         /\ \A j \in 1..(i - 1) : trim(choices[j]) = <<>>])

\* acquireCompletionText (lines 300-314); choices: the text of each choice of the
\* response, <<>> for a choice without text
acquireCompletionText(choices) ==
    IF \A i \in 1..Len(choices) : trim(choices[i]) = <<>> THEN <<>>
    ELSE LET choice == CHOOSE i \in 1..Len(choices) :
                          /\ trim(choices[i]) # <<>>
                          /\ \A j \in 1..(i - 1) : trim(choices[j]) = <<>>
             keep(c) == c # REPLACEMENT
         IN  SelectSeq(trim(choices[choice]), keep)

\* responses of the completion endpoint: no choice; a blank choice and one with a
\* truncated character in the middle; one with a truncated last character
Completions == { <<>>,
                 << <<" ">>, <<" ", "a", REPLACEMENT, "b">> >>,
                 << <<"x", REPLACEMENT>> >> }

\* completion texts getFromLLM resolves with
Texts == { acquireCompletionText(choices) : choices \in Completions }

Slot == 1..MaxInFlight

VARIABLES
    suggestionsHistory,  \* CompletionProvider.suggestionsHistory (most recent last)
    abortControllers,    \* AutocompleteLoggingService._abortControllers: registered completionIds
    aborted,             \* aborted flag of the token each call uses
    pc,                  \* position of each provideInlineCompletionItems call
    input,               \* [prefix, suffix, ext, id] of each call in flight; ext: an
                         \* external token was passed
    netCalls,            \* number of llm.completions.create calls issued by each call
    finished,            \* the call that finished last: its input, token, result and exit,
                         \* what its cache lookup saw and what its fetch resolved with
    nextId               \* completionId of the next call (ids are unique and time-sortable)

cvars == <<suggestionsHistory, abortControllers, aborted, pc, input, netCalls,
           finished, nextId>>

\* pure-function harness for findMatchingSuggestion
VARIABLES
    mEntry,              \* the cached suggestion
    mPrefix,             \* prefix of the request
    mSuffix,             \* suffix of the request
    mResult              \* what findMatchingSuggestion returned, once applied

mvars == <<mEntry, mPrefix, mSuffix, mResult>>

\* direct updateSuggestions / findMatchingSuggestion calls on the history
VARIABLES
    hLog,                \* every suggestion pushed onto the history, in insertion order
    hLastRead,           \* result of the last findMatchingSuggestion call
    hLastUpdate          \* the last updateSuggestions call: was its triple held, was the history kept

hvars == <<hLog, hLastRead, hLastUpdate>>

\* TextAcceptanceTracker and the documents it is asked about
VARIABLES
    expectedAcceptance,  \* TextAcceptanceTracker.expectedAcceptance (Null: none pending)
    docText,             \* content of the edited document, "u1"
    docVersion,          \* its version
    lastCheck            \* the last checkTextWasAccepted call: what held at the call, its result

tvars == <<expectedAcceptance, docText, docVersion, lastCheck>>

\* VersionApi.shouldUpdate
VARIABLES
    currentVersion,      \* versionId of the installed client (the argument)
    latestVersion,       \* versionId of platform.json's "newest" on the server
    updateResult         \* what shouldUpdate returned: "none" before it settles

vvars == <<currentVersion, latestVersion, updateResult>>

\* FileDownloader.downloadClient
VARIABLES
    downloadPc,          \* position of the downloadClient call
    attempt,             \* loop variable of the retry loop
    abortController,     \* FileDownloader.abortController is set
    packageInfo,         \* the manifest entry: checksum and os
    targetFile,          \* content of the file at targetPath (NoFile: absent)
    executable,          \* the file's mode is 0o755
    unlinkPending,       \* fs.unlink was issued and has not completed
    downloadResult,      \* "none", "targetPath" or "rejected"
    verified,            \* outcome of verifyFileChecksum and the content it hashed
    signal,              \* options.signal of the request in flight: "none", "live", "aborted"
    retryTimer,          \* delay in ms of the pending setTimeout of the retry loop (0: none)
    requests,            \* client.request calls made by the downloadClient call
    cancelledAt          \* value of requests when cancelDownload() aborted a request
                         \* in flight (0: it did not)

dvars == <<downloadPc, attempt, abortController, packageInfo, targetFile, executable,
           unlinkPending, downloadResult, verified, signal, retryTimer, requests,
           cancelledAt>>

\* ZgsmCodebaseIndexManager: the health-check loop
VARIABLES
    healthCheckFailureCount,
    isHealthCheckRunning,    \* the interval timer is set
    isInitialized,
    tick,                    \* position of each timer callback in flight
    consecutiveFailures,     \* failed ticks since the last successful tick or counter reset
    restartCalls,            \* restartClient calls made by those failed ticks
    lastTick                 \* the last settled tick: what it saw and the counter before and after

kvars == <<healthCheckFailureCount, isHealthCheckRunning, isInitialized, tick,
           consecutiveFailures, restartCalls,
           lastTick>>

\* ZgsmCodebaseIndexManager.getIndexStatus
VARIABLES
    pendingIndexStatusRequests,  \* workspace -> request in flight (0: none)
    recentCompletedRequests,     \* workspace -> last completed result and its timestamp
    now,                         \* Date.now()
    call,                        \* the getIndexStatus calls
    request,                     \* the _getIndexStatusInternal calls, by creating call
    overlapped,                  \* pairs of calls issued before either resolved
    completedAt                  \* workspace -> instant at which its last successful
                                 \* request completed (-1: none yet)

svars == <<pendingIndexStatusRequests, recentCompletedRequests, now, call, request,
           overlapped, completedAt>>

\* ZgsmCodebaseIndexManager.initialize and the files it installs
VARIABLES
    manager,             \* client, clineProvider, isInitialized, isHealthCheckRunning
    apiProvider,         \* apiConfiguration.apiProvider of the active profile
    versionJson,         \* ~/.costrict/share/version.json (NoManifest: no such file)
    binary,              \* the file at getTargetPath().targetPath
    initCall,            \* the initialize / restartClient call in flight
    finishedInit,        \* the call that settled last, with what it did
    succeeded,           \* an initialize() completed and no restartClient since
    lastOp               \* the public operation that settled last

gvars == <<manager, apiProvider, versionJson, binary, initCall,
           finishedInit, succeeded, lastOp>>

\* InlineCompletionProvider (inlineCompletionProvider.ts) with its tracker
VARIABLES
    provide,             \* the provideInlineCompletionItems calls: position, and whether
                         \* the completion provider's cancel() aborted the call's token
    currentCompletionId, \* InlineCompletionProvider.currentCompletionId (0: "")
    expectedFor,         \* completionId of the suggestion tracker.expectedAcceptance was
                         \* set for (0: expectedAcceptance is null)
    acceptedIds,         \* completionIds passed to recordAcceptance
    rejectedIds,         \* completionIds passed to recordRejection
    overwritten,         \* completionIds whose expectation setExpectedTextAcceptance
                         \* replaced while they had no label
    nextShown            \* completionId of the next outcome

pvars == <<provide, currentCompletionId, expectedFor, acceptedIds, rejectedIds,
           overwritten, nextShown>>

\* CodebaseIndexClient.startService (part_003)
VARIABLES
    registry,            \* what ~/.costrict/share/.well-known.json holds
    servicePc,           \* position of the startService call
    retryTime,           \* its retryTime argument, in ms
    pollTimer,           \* delay in ms of the pending setTimeout (0: none)
    serverHost,          \* CodebaseIndexClient.serverHost
    seen                 \* the registry as the returning call read it

wvars == <<registry, servicePc, retryTime, pollTimer, serverHost, seen>>

\* WorkspaceEventMonitor (part_008)
VARIABLES
    monitor,             \* the singleton: eventBuffer, flushTimer, lastFlushTime, config
    monitorNow,          \* Date.now()
    workspaceFolders,    \* TRUE iff vscode.workspace.workspaceFolders has a first folder
    eventsAdded,         \* number of addEvent calls so far; the n-th event carries stamp n
    latestStamp,         \* event key -> stamp of the last event added under it (0: none)
    lastAdd,             \* the last addEvent call of the last handler call (NoAdd: it made none)
    lastHandler          \* the last handler call: what it was given and whether it left the monitor as it was

bvars == <<monitor, monitorNow, workspaceFolders, eventsAdded, latestStamp, lastAdd,
           lastHandler>>

\* WorkspaceEventMonitor.sendEventsToServer (part_008)
VARIABLES
    send                 \* each call in flight: position, retryCount, publish attempts made, pending delay

evars == <<send>>

vars == <<cvars, mvars, hvars, tvars, vvars, dvars, kvars, svars, gvars, pvars, wvars, bvars, evars>>

nonCompletion == <<mvars, hvars, tvars, vvars, dvars, kvars, svars, gvars, pvars, wvars, bvars, evars>>
nonMatch == <<cvars, hvars, tvars, vvars, dvars, kvars, svars, gvars, pvars, wvars, bvars, evars>>
nonHistory == <<mvars, tvars, vvars, dvars, kvars, svars, gvars, pvars, wvars, bvars, evars>>
nonTracker == <<cvars, mvars, hvars, vvars, dvars, kvars, svars, gvars, pvars, wvars, bvars, evars>>
nonVersion == <<cvars, mvars, hvars, tvars, dvars, kvars, svars, gvars, pvars, wvars, bvars, evars>>
nonDownload == <<cvars, mvars, hvars, tvars, vvars, kvars, svars, gvars, pvars, wvars, bvars, evars>>
nonHealth == <<cvars, mvars, hvars, tvars, vvars, dvars, svars, gvars, pvars, wvars, bvars, evars>>
nonStatus == <<cvars, mvars, hvars, tvars, vvars, dvars, kvars, gvars, pvars, wvars, bvars, evars>>
nonManager == <<cvars, mvars, hvars, tvars, vvars, dvars, kvars, svars, pvars, wvars, bvars, evars>>
nonProvider == <<cvars, mvars, hvars, tvars, vvars, dvars, kvars, svars, gvars, wvars, bvars, evars>>
nonService == <<cvars, mvars, hvars, tvars, vvars, dvars, kvars, svars, gvars, pvars, bvars, evars>>
nonMonitor == <<cvars, mvars, hvars, tvars, vvars, dvars, kvars, svars, gvars, pvars, wvars, evars>>
nonSend == <<cvars, mvars, hvars, tvars, vvars, dvars, kvars, svars, gvars, pvars, wvars, bvars>>

(***************************************************************************)
(* findMatchingSuggestion (completionProvider.ts:41-77)                    *)
(***************************************************************************)
NoMatch == [found |-> FALSE, text |-> <<>>, completionId |-> 0]

\* variant: a partial match returns the whole suggestion, typed part included
matchEntry_wholeText(prefix, suffix, fillInAtCursor) ==
    IF /\ suffix = fillInAtCursor.suffix
       /\ startsWith(prefix, fillInAtCursor.prefix)
       /\ startsWith(fillInAtCursor.text, substring(prefix, Len(fillInAtCursor.prefix)))
       /\ (fillInAtCursor.text # <<>> \/ prefix = fillInAtCursor.prefix)
    THEN [found |-> TRUE, text |-> fillInAtCursor.text,
          completionId |-> fillInAtCursor.completionId]
    ELSE NoMatch

\* the body of the loop (lines 48-73): what one entry answers to the request
matchEntry(prefix, suffix, fillInAtCursor) ==
    IF prefix = fillInAtCursor.prefix /\ suffix = fillInAtCursor.suffix
    THEN [found |-> TRUE, text |-> fillInAtCursor.text,
          completionId |-> fillInAtCursor.completionId]
    ELSE IF /\ fillInAtCursor.text # <<>>
            /\ startsWith(prefix, fillInAtCursor.prefix)
            /\ suffix = fillInAtCursor.suffix
    THEN LET typedContent == substring(prefix, Len(fillInAtCursor.prefix)) IN
         IF startsWith(fillInAtCursor.text, typedContent)
         THEN [found |-> TRUE,
               text |-> substring(fillInAtCursor.text, Len(typedContent)),
               completionId |-> fillInAtCursor.completionId]
         ELSE NoMatch
    ELSE NoMatch

\* the loop from the most recent entry (index Len) to the least recent
RECURSIVE findFrom(_, _, _, _)
findFrom(prefix, suffix, hist, i) ==
    IF i < 1 THEN NoMatch
    ELSE LET one == matchEntry(prefix, suffix, hist[i]) IN
         IF one.found THEN one ELSE findFrom(prefix, suffix, hist, i - 1)

\* variant: searches the history oldest first
RECURSIVE findFromOldest(_, _, _, _)
findFromOldest(prefix, suffix, hist, i) ==
    IF i > Len(hist) THEN NoMatch
    ELSE LET one == matchEntry(prefix, suffix, hist[i]) IN
         IF one.found THEN one ELSE findFromOldest(prefix, suffix, hist, i + 1)

findMatchingSuggestion_oldestFirst(prefix, suffix, hist) ==
    findFromOldest(prefix, suffix, hist, 1)

findMatchingSuggestion(prefix, suffix, hist) ==
    findFrom(prefix, suffix, hist, Len(hist))

(***************************************************************************)
(* CompletionProvider.updateSuggestions (completionProvider.ts:226-245)    *)
(***************************************************************************)
\* variant: a suggestion is a duplicate only of itself
isDuplicate_sameId(hist, s) ==
    \E i \in 1..Len(hist) : hist[i] = s

isDuplicate(hist, s) ==
    \E i \in 1..Len(hist) :
        /\ hist[i].text = s.text
        /\ hist[i].prefix = s.prefix
        /\ hist[i].suffix = s.suffix

\* variant: evicts the newest entry instead of the oldest
updateSuggestions_dropNewest(hist, s) ==
    IF isDuplicate(hist, s) THEN hist
    ELSE IF Len(hist) + 1 > MAX_SUGGESTIONS_HISTORY THEN hist
    ELSE Append(hist, s)

updateSuggestions(hist, s) ==
    IF isDuplicate(hist, s) THEN hist
    ELSE LET pushed == Append(hist, s) IN
         IF Len(pushed) > MAX_SUGGESTIONS_HISTORY THEN Tail(pushed) ELSE pushed

(***************************************************************************)
(* AutocompleteLoggingService (autocompleteLoggingService.ts:9-30)         *)
(***************************************************************************)
\* cancel(): abort every registered controller; the map is then cleared
\* variant: clears the registry without aborting the controllers
cancelAborted_noAbort(ab, ids, registered) == ab

cancelAborted(ab, ids, registered) ==
    [r \in Slot |-> IF ids[r] \in registered THEN TRUE ELSE ab[r]]

\* variant: the entry is left in the map
deleteAbortController_keep(registered, completionId) == registered

\* deleteAbortController(completionId): the entry of that id is removed
deleteAbortController(registered, completionId) == registered \ {completionId}

(***************************************************************************)
(* CompletionProvider.fetchAndCacheSuggestions (completionProvider.ts:247) *)
(***************************************************************************)
\* variant: caches the response whether or not the token is aborted
fetchAndCacheSuggestions_always(hist, s, tokenAborted) == updateSuggestions(hist, s)

fetchAndCacheSuggestions(hist, s, tokenAborted) ==
    IF tokenAborted THEN hist ELSE updateSuggestions(hist, s)

(***************************************************************************)
(* Values a call can end with                                              *)
(***************************************************************************)
NoResult == [kind |-> "none"]

Undefined == [kind |-> "undefined"]

\* what a call throws: the caught value itself (`throw e`, line 204)
Thrown(e) == [kind |-> "error", error |-> e]

Outcome(completion, completionId, cacheHit) ==
    [kind |-> "outcome", completion |-> completion,
     completionId |-> completionId, cacheHit |-> cacheHit]

InFlight(r) == pc[r] \in {"prepare", "debounce", "fetch"}


NoInput == [prefix |-> <<>>, suffix |-> <<>>, ext |-> FALSE, id |-> 0]

ids == [r \in Slot |-> input[r].id]

\* a later call started while call r was in flight
Superseded(r) == input[r].id + 1 < nextId

NoError == [isError |-> FALSE, name |-> "", message |-> <<>>]

NoFetch == [got |-> FALSE, text |-> <<>>, choices |-> <<>>, error |-> NoError]

\* the network request rejected with the value e
Rejected(e) == [got |-> FALSE, text |-> <<>>, choices |-> <<>>, error |-> e]

NoneFinished ==
    [input |-> NoInput, aborted |-> FALSE, superseded |-> FALSE, netCalls |-> 0,
     exactTexts |-> {}, fetched |-> NoFetch, result |-> NoResult, exit |-> "-"]

\* the texts of the history entries whose (prefix, suffix) is the request's
ExactTexts(hist, prefix, suffix) ==
    { hist[i].text : i \in { j \in 1..Len(hist) :
                                hist[j].prefix = prefix /\ hist[j].suffix = suffix } }

(***************************************************************************)
(* Initial state: a freshly constructed CompletionProvider                 *)
(***************************************************************************)
CInit ==
    /\ suggestionsHistory = <<>>
    /\ abortControllers = {}
    /\ aborted = [r \in Slot |-> FALSE]
    /\ pc = [r \in Slot |-> "idle"]
    /\ input = [r \in Slot |-> NoInput]
    /\ netCalls = [r \in Slot |-> 0]
    /\ finished = NoneFinished
    /\ nextId = 1

\* the call returns or throws; the finally block (line 207) runs
\* deleteAbortController(input.completionId)
Finish(r, ab, in, tokenAborted, sup, calls, exact, fetch, res, at, registered) ==
    /\ pc' = [pc EXCEPT ![r] = "idle"]
    /\ input' = [input EXCEPT ![r] = NoInput]
    /\ aborted' = [ab EXCEPT ![r] = FALSE]
    /\ netCalls' = [netCalls EXCEPT ![r] = 0]
    /\ finished' = [input |-> in, aborted |-> tokenAborted,
                    superseded |-> sup, netCalls |-> calls,
                    exactTexts |-> exact, fetched |-> fetch,
                    result |-> res, exit |-> at]
    /\ abortControllers' = deleteAbortController(registered, in.id)

Return(r, exact, fetch, res, at) ==
    /\ Finish(r, aborted, input[r], aborted[r], Superseded(r), netCalls[r], exact, fetch,
              res, at, abortControllers)
    /\ nextId' = nextId

\* the record of the call that starts: the first one not in flight
FreeSlot(r) == ~InFlight(r) /\ \A q \in Slot : q < r => InFlight(q)

(***************************************************************************)
(* provideInlineCompletionItems, lines 124-143: cancel(), create the       *)
(* internal controller unless a token was passed, first aborted check,     *)
(* then suspend on _prepareLlm().                                          *)
(***************************************************************************)
Start(r, in, ext, extAborted) ==
    /\ nextId <= MaxRequests
    /\ FreeSlot(r)
    /\ extAborted => ext
    /\ LET cancelled == cancelAborted(aborted, ids, abortControllers)
           registered == IF ext THEN {} ELSE {nextId}
           started == [prefix |-> in.prefix, suffix |-> in.suffix, ext |-> ext, id |-> nextId]
       IN  /\ nextId' = nextId + 1
           /\ IF extAborted
              THEN Finish(r, cancelled, started, TRUE, FALSE, 0, {}, NoFetch, Undefined, "entry",
                          registered)
              ELSE /\ pc' = [pc EXCEPT ![r] = "prepare"]
                   /\ input' = [input EXCEPT ![r] = started]
                   /\ aborted' = [cancelled EXCEPT ![r] = FALSE]
                   /\ abortControllers' = registered
                   /\ UNCHANGED <<netCalls, finished>>
    /\ UNCHANGED <<suggestionsHistory, nonCompletion>>

\* _prepareLlm() resolved (lines 143-149): no credentials -> undefined;
\* otherwise the call suspends on the debounce delay
PrepareDone(r, credentials) ==
    /\ pc[r] = "prepare"
    /\ IF credentials
       THEN /\ pc' = [pc EXCEPT ![r] = "debounce"]
            /\ UNCHANGED <<abortControllers, aborted, input, netCalls, finished, nextId>>
       ELSE Return(r, {}, NoFetch, Undefined, "credentials")
    /\ UNCHANGED <<suggestionsHistory, nonCompletion>>

\* AutocompleteDebouncer.delayAndShouldDebounce(300, token): true when the
\* token was aborted during the wait
delayAndShouldDebounce(tokenAborted) == tokenAborted

\* the debounce delay elapsed (lines 149-198): debounce / aborted check,
\* cache lookup, and on a miss the network request is issued
DebounceDone(r) ==
    /\ pc[r] = "debounce"
    /\ IF delayAndShouldDebounce(aborted[r]) \/ aborted[r]
       THEN Return(r, {}, NoFetch, Undefined, "debounce")
       ELSE LET suggestion == findMatchingSuggestion(input[r].prefix, input[r].suffix,
                                                     suggestionsHistory)
            IN  IF suggestion.found
                THEN Return(r, ExactTexts(suggestionsHistory, input[r].prefix,
                                          input[r].suffix),
                            NoFetch,
                            Outcome(suggestion.text, suggestion.completionId, TRUE),
                            "cache")
                ELSE /\ pc' = [pc EXCEPT ![r] = "fetch"]
                     /\ netCalls' = [netCalls EXCEPT ![r] = @ + 1]
                     /\ UNCHANGED <<abortControllers, aborted, input, finished, nextId>>
    /\ UNCHANGED <<suggestionsHistory, nonCompletion>>

\* the suggestion getFromLLM builds from a response (lines 288-297)
Suggestion(r, text, respId) ==
    [text |-> text, prefix |-> input[r].prefix, suffix |-> input[r].suffix,
     completionId |-> respId]

\* getFromLLM resolved with a completion (lines 172-198, 247-256)
FetchResolved(r, choices, respId) ==
    /\ pc[r] = "fetch"
    /\ LET text == acquireCompletionText(choices)
           hist == fetchAndCacheSuggestions(suggestionsHistory,
                                            Suggestion(r, text, respId), aborted[r])
           suggestion == findMatchingSuggestion(input[r].prefix, input[r].suffix, hist)
       IN  /\ suggestionsHistory' = hist
           /\ IF aborted[r] \/ ~suggestion.found
              THEN Return(r, {}, [got |-> TRUE, text |-> text, choices |-> choices, error |-> NoError], Undefined, "fetched")
              ELSE Return(r, {}, [got |-> TRUE, text |-> text, choices |-> choices, error |-> NoError],
                          Outcome(suggestion.text, suggestion.completionId, FALSE),
                          "fetched")
    /\ UNCHANGED nonCompletion

\* String.prototype.includes: word occurs in message as a contiguous run
includes(message, word) ==
    \E i \in 0..(Len(message) - Len(word)) :
        \A k \in 1..Len(word) : message[i + k] = word[k]

\* variant: the message patterns are not looked at
isAbortError_nameOnly(e) ==
    e.isError /\ e.name = "AbortError"

\* CompletionProvider.isAbortError (lines 214-224)
isAbortError(e) ==
    /\ e.isError
    /\ \/ e.name = "AbortError"
       \/ includes(e.message, <<"a","b","o","r","t","e","d">>)
       \/ includes(e.message, <<"c","a","n","c","e","l","l","e","d">>)
       \/ includes(e.message, <<"c","a","n","c","e","l","e","d">>)

Error(name, message) == [isError |-> TRUE, name |-> name, message |-> message]

\* the values a rejected request can be caught with: Error objects by name and
\* message, and one thrown value that is no Error
Errors ==
    { Error("AbortError", <<"s","t","o","p">>),
      Error("Error", <<"i","s"," ","a","b","o","r","t","e","d",".">>),
      Error("Error", <<"c","a","n","c","e","l","l","e","d">>),
      Error("Error", <<"c","a","n","c","e","l","e","d","!">>),
      Error("Error", <<"A","b","o","r","t","e","d">>),
      Error("Error", <<"c","a","n","c","e","l">>),
      Error("Error", <<"t","i","m","e","d"," ","o","u","t">>),
      NoError }

\* one cancellation and one network failure
BasicErrors ==
    { Error("AbortError", <<"s","t","o","p">>),
      Error("Error", <<"t","i","m","e","d"," ","o","u","t">>) }

\* variant: the client is built with one retry
mayRetry_once(calls) == calls <= 1

\* the OpenAI client of _prepareLlm is built with maxRetries: 0 (line 103): a
\* failed request is sent again only while no more than maxRetries were sent
mayRetry(calls) == calls <= clientMaxRetries

\* the request failed and getFromLLM rejected (lines 199-208, 266-287): the
\* client sends it again while retries are left and the signal is not aborted;
\* otherwise the catch block classifies the caught value
FetchRejected(r, e) ==
    /\ pc[r] = "fetch"
    /\ IF mayRetry(netCalls[r]) /\ e.isError /\ ~aborted[r]
       THEN /\ netCalls' = [netCalls EXCEPT ![r] = @ + 1]
            /\ UNCHANGED <<abortControllers, aborted, pc, input, finished, nextId>>
       ELSE IF isAbortError(e)
            THEN Return(r, {}, Rejected(e), Undefined, "rejected")
            ELSE Return(r, {}, Rejected(e), Thrown(e), "rejected")
    /\ UNCHANGED <<suggestionsHistory, nonCompletion>>

\* CompletionProvider.cancel() (lines 327-329)
Cancel ==
    /\ abortControllers # {}
    /\ aborted' = cancelAborted(aborted, ids, abortControllers)
    /\ abortControllers' = {}
    /\ UNCHANGED <<suggestionsHistory, pc, input, netCalls, finished, nextId>>
    /\ UNCHANGED nonCompletion

\* the owner of an external AbortSignal aborts it while the call is in flight
AbortExternal(r) ==
    /\ InFlight(r)
    /\ input[r].ext
    /\ ~aborted[r]
    /\ aborted' = [aborted EXCEPT ![r] = TRUE]
    /\ UNCHANGED <<suggestionsHistory, abortControllers, pc, input, netCalls,
                   finished, nextId>>
    /\ UNCHANGED nonCompletion

(***************************************************************************)
(* findMatchingSuggestion applied to one cached entry and one request      *)
(***************************************************************************)
\* the strings over {"a", "b"} of at most n characters
RECURSIVE Strings(_)
Strings(n) ==
    IF n = 0 THEN { <<>> }
    ELSE Strings(n - 1) \cup { Append(w, c) : w \in Strings(n - 1), c \in {"a", "b"} }

NotApplied == [found |-> FALSE, text |-> <<>>, completionId |-> -1]

MIdle ==
    /\ mEntry = [text |-> <<>>, prefix |-> <<>>, suffix |-> <<>>, completionId |-> 0]
    /\ mPrefix = <<>>
    /\ mSuffix = <<>>
    /\ mResult = NotApplied

MDraw ==
    /\ mEntry \in [text : Strings(MaxStrLen), prefix : Strings(MaxStrLen - 1),
                    suffix : {<<>>, <<"z">>}, completionId : {1}]
    /\ mPrefix \in Strings(MaxStrLen)
    /\ mSuffix \in {<<>>, <<"z">>}
    /\ mResult = NotApplied

Match ==
    /\ mResult = NotApplied
    /\ mResult' = findMatchingSuggestion(mPrefix, mSuffix, <<mEntry>>)
    /\ UNCHANGED <<mEntry, mPrefix, mSuffix, nonMatch>>

(***************************************************************************)
(* updateSuggestions / findMatchingSuggestion called on the history itself *)
(***************************************************************************)
\* the k-th suggestion of the stream: its prefix is k characters long
Nth(k) == [text |-> <<"a">>, prefix |-> [i \in 1..k |-> "a"], suffix |-> <<>>,
           completionId |-> k]

NoUpdate == [recurring |-> FALSE, duplicate |-> FALSE, kept |-> TRUE]

\* a later suggestion of the same text, prefix and suffix as the k-th one,
\* under a completionId of its own
Recurring(k) ==
    [Nth(k) EXCEPT !.completionId = MAX_SUGGESTIONS_HISTORY + MaxExtraInserts + k]

Updated(s) ==
    hLastUpdate' = [recurring |-> s.completionId > MAX_SUGGESTIONS_HISTORY + MaxExtraInserts,
                    duplicate |-> isDuplicate(suggestionsHistory, s),
                    kept |-> suggestionsHistory' = suggestionsHistory]

HIdle ==
    /\ hLog = <<>>
    /\ hLastRead = NotApplied
    /\ hLastUpdate = NoUpdate

\* updateSuggestions(Nth(k)): a new suggestion, one still in the history, or one
\* that was evicted
Insert(k) ==
    /\ k \in 1..(MAX_SUGGESTIONS_HISTORY + MaxExtraInserts)
    /\ \A j \in 1..(k - 1) : \E i \in 1..Len(hLog) : hLog[i] = Nth(j)
    /\ Len(hLog) < MAX_SUGGESTIONS_HISTORY + MaxExtraInserts
         \/ isDuplicate(suggestionsHistory, Nth(k))
    /\ suggestionsHistory' = updateSuggestions(suggestionsHistory, Nth(k))
    /\ hLog' = IF isDuplicate(suggestionsHistory, Nth(k))
               THEN hLog ELSE Append(hLog, Nth(k))
    /\ Updated(Nth(k))
    /\ UNCHANGED <<hLastRead, abortControllers, aborted, pc, input, netCalls,
                   finished, nextId, nonHistory>>

\* updateSuggestions(Recurring(k)): the triple of a suggestion inserted before
InsertRecurring(k) ==
    /\ \E i \in 1..Len(hLog) : hLog[i] = Nth(k)
    /\ Len(hLog) < MAX_SUGGESTIONS_HISTORY + MaxExtraInserts
         \/ isDuplicate(suggestionsHistory, Recurring(k))
    /\ suggestionsHistory' = updateSuggestions(suggestionsHistory, Recurring(k))
    /\ hLog' = IF isDuplicate(suggestionsHistory, Recurring(k))
               THEN hLog ELSE Append(hLog, Recurring(k))
    /\ Updated(Recurring(k))
    /\ UNCHANGED <<hLastRead, abortControllers, aborted, pc, input, netCalls,
                   finished, nextId, nonHistory>>

\* findMatchingSuggestion for the prefix of k characters
Read(k) ==
    /\ k \in 0..(MAX_SUGGESTIONS_HISTORY + MaxExtraInserts + 1)
    /\ hLastRead' = findMatchingSuggestion([i \in 1..k |-> "a"], <<>>, suggestionsHistory)
    /\ UNCHANGED <<hLog, hLastUpdate, cvars, nonHistory>>

(***************************************************************************)
(* TextAcceptanceTracker (textAcceptanceTracker.ts)                        *)
(***************************************************************************)
Null == [pending |-> FALSE]

\* String.prototype.split("\n")
RECURSIVE split(_)
split(text) ==
    IF \A i \in 1..Len(text) : text[i] # "\n" THEN <<text>>
    ELSE LET i == CHOOSE k \in 1..Len(text) :
                      text[k] = "\n" /\ \A j \in 1..(k - 1) : text[j] # "\n"
         IN  <<SubSeq(text, 1, i - 1)>> \o split(SubSeq(text, i + 1, Len(text)))

\* TextDocument.offsetAt: the position is first adjusted to the document
RECURSIVE lineStart(_, _)
lineStart(lines, l) ==
    IF l = 0 THEN 0 ELSE lineStart(lines, l - 1) + Len(lines[l]) + 1

offsetAt(text, line, character) ==
    LET lines == split(text)
        last == Len(lines) - 1
    IN  IF line > last THEN Len(text)
        ELSE lineStart(lines, line) +
             (IF character > Len(lines[line + 1]) THEN Len(lines[line + 1]) ELSE character)

\* TextDocument.getText(new Range(start, end))
getText(text, startLine, startCharacter, endLine, endCharacter) ==
    LET from == offsetAt(text, startLine, startCharacter)
        to == offsetAt(text, endLine, endCharacter)
    IN  IF from <= to THEN SubSeq(text, from + 1, to) ELSE SubSeq(text, to + 1, from)

\* setExpectedTextAcceptance (lines 44-67): the expectation it stores
setExpectedTextAcceptance(uri, version, text, startLine, startCharacter) ==
    LET lines == split(text) IN
    [pending |-> TRUE,
     documentUri |-> uri,
     documentVersion |-> version,
     text |-> text,
     startLine |-> startLine,
     startCharacter |-> startCharacter,
     endLine |-> IF Len(lines) > 1 THEN startLine + Len(lines) - 1 ELSE startLine,
     endCharacter |-> IF Len(lines) > 1 THEN Len(lines[Len(lines)])
                      ELSE startCharacter + Len(text)]

\* variant: accepts a document whose version is the one of the expectation
checkTextWasAccepted_sameVersion(exp, uri, version, text, line, character) ==
    /\ exp.pending
    /\ exp.documentUri = uri
    /\ version >= exp.documentVersion
    /\ line = exp.endLine /\ character = exp.endCharacter
    /\ getText(text, exp.startLine, exp.startCharacter, exp.endLine, exp.endCharacter)
          = exp.text

\* checkTextWasAccepted (lines 69-114): its return value
checkTextWasAccepted(exp, uri, version, text, line, character) ==
    IF ~exp.pending THEN FALSE
    ELSE IF exp.documentUri # uri THEN FALSE
    ELSE IF version <= exp.documentVersion THEN FALSE
    ELSE IF line = exp.endLine /\ character = exp.endCharacter
    THEN getText(text, exp.startLine, exp.startCharacter, exp.endLine, exp.endCharacter)
            = exp.text
    ELSE FALSE

Uris == {"u1", "u2"}

\* the other document, "u2", is not edited
TextOf(uri) == IF uri = "u1" THEN docText ELSE <<"h">>

VersionOf(uri) == IF uri = "u1" THEN docVersion ELSE 1

\* suggestion texts shown to the user
GhostTexts == { <<"h">>, <<"h", "\n", "h">> }

\* texts an edit inserts
EditTexts == { <<"h">>, <<"i">>, <<"h", "\n", "h">> }

NoCheck == [called |-> FALSE, n |-> 0, pending |-> FALSE, sameUri |-> FALSE,
            newer |-> FALSE, atEnd |-> FALSE, sameText |-> FALSE, result |-> FALSE]

TIdle ==
    /\ expectedAcceptance = Null
    /\ docText = <<>>
    /\ docVersion = 1
    /\ lastCheck = NoCheck

\* a suggestion is shown: tracker.setExpectedTextAcceptance(document, text, position)
SetExpected(uri, text, line, character) ==
    /\ expectedAcceptance' =
          setExpectedTextAcceptance(uri, VersionOf(uri), text, line, character)
    /\ lastCheck' = NoCheck
    /\ UNCHANGED <<docText, docVersion, nonTracker>>

\* the user (or the accepted suggestion) inserts text into document "u1"
Edit(offset, text) ==
    /\ docVersion < MaxVersion
    /\ offset \in 0..Len(docText)
    /\ docText' = SubSeq(docText, 1, offset) \o text \o SubSeq(docText, offset + 1, Len(docText))
    /\ docVersion' = docVersion + 1
    /\ lastCheck' = NoCheck
    /\ UNCHANGED <<expectedAcceptance, nonTracker>>

\* tracker.checkTextWasAccepted(document, newPosition)
Check(uri, line, character) ==
    LET exp == expectedAcceptance
        accepted == checkTextWasAccepted(exp, uri, VersionOf(uri), TextOf(uri),
                                         line, character)
    IN  /\ expectedAcceptance' = IF accepted THEN Null ELSE exp
        /\ lastCheck' =
              [called |-> TRUE,
               n |-> 1 - lastCheck.n,
               pending |-> exp.pending,
               sameUri |-> exp.pending /\ exp.documentUri = uri,
               newer |-> exp.pending /\ VersionOf(uri) > exp.documentVersion,
               atEnd |-> exp.pending /\ <<line, character>> = <<exp.endLine, exp.endCharacter>>,
               sameText |-> exp.pending /\
                   getText(TextOf(uri), exp.startLine, exp.startCharacter,
                           exp.endLine, exp.endCharacter) = exp.text,
               result |-> accepted]
        /\ UNCHANGED <<docText, docVersion, nonTracker>>

\* clearExpectedAcceptance (lines 169-171)
ClearExpected ==
    /\ expectedAcceptance # Null
    /\ expectedAcceptance' = Null
    /\ lastCheck' = NoCheck
    /\ UNCHANGED <<docText, docVersion, nonTracker>>

(***************************************************************************)
(* VersionApi.shouldUpdate (versionApi.ts)                                 *)
(***************************************************************************)
VersionIds == [major : 0..MaxVersionField, minor : 0..MaxVersionField,
               micro : 0..MaxVersionField]

\* variant: the minor field decides without looking at the major field
shouldUpdate_minorAlone(latest, current) ==
    IF latest.major > current.major THEN TRUE
    ELSE IF latest.minor > current.minor THEN TRUE
    ELSE IF latest.major = current.major /\ latest.minor = current.minor
            /\ latest.micro > current.micro THEN TRUE
    ELSE FALSE

\* shouldUpdate (lines 63-89): the comparison after getLatestVersion resolved
shouldUpdate(latest, current) ==
    IF latest.major > current.major THEN TRUE
    ELSE IF latest.major = current.major /\ latest.minor > current.minor THEN TRUE
    ELSE IF latest.major = current.major /\ latest.minor = current.minor
            /\ latest.micro > current.micro THEN TRUE
    ELSE FALSE

VIdle ==
    /\ currentVersion = [major |-> 0, minor |-> 0, micro |-> 0]
    /\ latestVersion = [major |-> 0, minor |-> 0, micro |-> 0]
    /\ updateResult = "none"

VDraw ==
    /\ currentVersion \in VersionIds
    /\ latestVersion \in VersionIds
    /\ updateResult = "none"

\* client.shouldUpdate(currentVersion): getLatestVersion resolves or throws
ShouldUpdate(fetched) ==
    /\ updateResult = "none"
    /\ updateResult' = IF ~fetched THEN "error"
                       ELSE IF shouldUpdate(latestVersion, currentVersion) THEN "true"
                       ELSE "false"
    /\ UNCHANGED <<currentVersion, latestVersion, nonVersion>>

(***************************************************************************)
(* FileDownloader (versionApi.ts)                                          *)
(***************************************************************************)
NoFile == "absent"

\* what the server may send as the file
Contents == {"c1", "c2"}

\* hash.digest("hex") of a content: hexadecimal digits in lower case
digest(content) == IF content = "c1" THEN <<"a", "1">> ELSE <<"b", "2">>

\* the checksum field of the manifest
Checksums == { <<"a", "1">>, <<"A", "1">>, <<"b", "2">>, <<"B", "2">>, <<"a", "2">> }

OperatingSystems == {"windows", "linux", "darwin"}

\* String.prototype.toLowerCase
toLowerCase(str) ==
    [i \in 1..Len(str) |-> IF str[i] = "A" THEN "a"
                           ELSE IF str[i] = "B" THEN "b" ELSE str[i]]

\* variant: the checksums are compared as they are written
checksumMatches_caseSensitive(actualChecksum, expectedChecksum) ==
    actualChecksum = expectedChecksum

\* verifyFileChecksum, line 330
checksumMatches(actualChecksum, expectedChecksum) ==
    toLowerCase(actualChecksum) = toLowerCase(expectedChecksum)

NotVerified == [outcome |-> "none", content |-> NoFile]

DIdle ==
    /\ downloadPc = "idle"
    /\ attempt = 0
    /\ abortController = FALSE
    /\ packageInfo = [checksum |-> <<"a", "1">>, os |-> "linux"]
    /\ targetFile = NoFile
    /\ executable = FALSE
    /\ unlinkPending = FALSE
    /\ downloadResult = "none"
    /\ verified = NotVerified
    /\ signal = "none"
    /\ retryTimer = 0
    /\ requests = 0
    /\ cancelledAt = 0

\* downloadClient(targetPath, versionInfo, packageInfo) up to the first request
DownloadClient(checksum, os) ==
    /\ downloadPc = "idle"
    /\ packageInfo' = [checksum |-> checksum, os |-> os]
    /\ abortController' = TRUE
    /\ attempt' = 0
    /\ downloadPc' = "request"
    /\ signal' = "live"
    /\ requests' = 1
    /\ UNCHANGED <<targetFile, executable, unlinkPending, downloadResult, verified,
                   retryTimer, cancelledAt, nonDownload>>

\* attemptDownload resolves: the response was 200 and the file stream finished
AttemptSucceeds(content) ==
    /\ downloadPc = "request"
    /\ signal # "aborted"
    /\ targetFile' = content
    /\ executable' = FALSE
    /\ downloadPc' = "verify"
    /\ signal' = "none"
    /\ UNCHANGED <<attempt, abortController, packageInfo, unlinkPending, downloadResult,
                   verified, retryTimer, requests, cancelledAt, nonDownload>>

\* the ways attemptDownload rejects
FailureKinds == {"status", "reqError", "timeout", "streamError", "abort"}

\* variant: the same delay after every attempt
retryDelay_constant(a) == 1000

\* the delay of the retry loop after failed attempt a (line 294)
retryDelay(a) == 1000 * 2^a

\* attemptDownload rejects: a status other than 200 ("status"); a request error
\* ("reqError") or the abort of the signal ("abort"), both handled by the
\* request's error handler, which removes the file if it exists; an error of
\* the write stream ("streamError"), whose handler removes the file too; a
\* timeout ("timeout"), which destroys the request and leaves what was written
\* so far. The retry loop then throws or sets its timer.
AttemptFails(kind, written) ==
    /\ downloadPc = "request"
    /\ kind = "abort" <=> signal = "aborted"
    /\ targetFile' = CASE kind = "status" -> targetFile
                       [] kind \in {"reqError", "abort", "streamError"} -> NoFile
                       [] kind = "timeout" -> IF written THEN "partial" ELSE targetFile
    /\ signal' = "none"
    /\ IF attempt = maxRetries
       THEN /\ downloadPc' = "done"
            /\ downloadResult' = "rejected"
            /\ abortController' = FALSE
            /\ retryTimer' = 0
       ELSE /\ downloadPc' = "backoff"
            /\ retryTimer' = retryDelay(attempt)
            /\ UNCHANGED <<downloadResult, abortController>>
    /\ UNCHANGED <<attempt, packageInfo, executable, unlinkPending, verified, requests,
                   cancelledAt, nonDownload>>

\* the backoff timer of the retry loop fires: the next attempt issues its
\* request with this.abortController?.signal (line 214)
RetryWaitDone ==
    /\ downloadPc = "backoff"
    /\ attempt' = attempt + 1
    /\ downloadPc' = "request"
    /\ signal' = IF abortController THEN "live" ELSE "none"
    /\ retryTimer' = 0
    /\ requests' = requests + 1
    /\ UNCHANGED <<abortController, packageInfo, targetFile, executable, unlinkPending,
                   downloadResult, verified, cancelledAt, nonDownload>>

\* cancelDownload() (lines 182-187) while the controller is set: abort() and
\* abortController = null
CancelDownload ==
    /\ abortController
    /\ abortController' = FALSE
    /\ signal' = IF signal = "live" THEN "aborted" ELSE signal
    /\ cancelledAt' = IF downloadPc = "request" THEN requests ELSE cancelledAt
    /\ UNCHANGED <<downloadPc, attempt, packageInfo, targetFile, executable,
                   unlinkPending, downloadResult, verified, retryTimer, requests,
                   nonDownload>>

\* verifyFileChecksum: the read stream ends
VerifyEnd ==
    /\ downloadPc = "verify"
    /\ IF checksumMatches(digest(targetFile), packageInfo.checksum)
       THEN /\ verified' = [outcome |-> "match", content |-> targetFile]
            /\ IF packageInfo.os # "windows"
               THEN /\ downloadPc' = "chmod"
                    /\ UNCHANGED <<downloadResult, abortController>>
               ELSE /\ downloadPc' = "done"
                    /\ downloadResult' = "targetPath"
                    /\ abortController' = FALSE
            /\ UNCHANGED unlinkPending
       ELSE /\ verified' = [outcome |-> "mismatch", content |-> targetFile]
            /\ unlinkPending' = TRUE
            /\ downloadPc' = "done"
            /\ downloadResult' = "rejected"
            /\ abortController' = FALSE
    /\ UNCHANGED <<attempt, packageInfo, targetFile, executable, signal, retryTimer,
                   requests, cancelledAt, nonDownload>>

\* verifyFileChecksum: the read stream fails
VerifyReadError ==
    /\ downloadPc = "verify"
    /\ verified' = [outcome |-> "readError", content |-> targetFile]
    /\ downloadPc' = "done"
    /\ downloadResult' = "rejected"
    /\ abortController' = FALSE
    /\ UNCHANGED <<attempt, packageInfo, targetFile, executable, unlinkPending, signal,
                   retryTimer, requests, cancelledAt, nonDownload>>

\* fs.promises.chmod(targetPath, 0o755) completes; downloadClient returns
ChmodDone ==
    /\ downloadPc = "chmod"
    /\ executable' = TRUE
    /\ downloadPc' = "done"
    /\ downloadResult' = "targetPath"
    /\ abortController' = FALSE
    /\ UNCHANGED <<attempt, packageInfo, targetFile, unlinkPending, verified, signal,
                   retryTimer, requests, cancelledAt, nonDownload>>

\* the fs.unlink issued on a mismatch completes
UnlinkDone ==
    /\ unlinkPending
    /\ targetFile' = NoFile
    /\ executable' = FALSE
    /\ unlinkPending' = FALSE
    /\ UNCHANGED <<downloadPc, attempt, abortController, packageInfo, downloadResult,
                   verified, signal, retryTimer, requests, cancelledAt, nonDownload>>

(***************************************************************************)
(* ZgsmCodebaseIndexManager: health check                                  *)
(***************************************************************************)
Ticks == 1..MaxTicksInFlight

\* variant: the restart is attempted when the count reaches MAX_FAILURE_COUNT
shouldRestart_atMax(count) == count >= MAX_FAILURE_COUNT

\* handleHealthCheckFailure, line 778
shouldRestart(count) == count > MAX_FAILURE_COUNT

\* what the /healthz call of a tick gives: the status of its response (the
\* string "success", the boolean true, anything else), or an exception
HealthResults == {"success", "true", "error", "throws"}

NoTick == [health |-> "none", active |-> FALSE, before |-> 0, after |-> 0]

\* variant: the process lookup alone decides
succeeds_processOnly(health, active) == active

\* performHealthCheck, line 752
succeeds(health, active) == active /\ (health = "success" \/ health = "true")

\* the manager after a successful initialize()
KIdle ==
    /\ healthCheckFailureCount = 0
    /\ isHealthCheckRunning = TRUE
    /\ isInitialized = TRUE
    /\ tick = [p \in Ticks |-> "idle"]
    /\ consecutiveFailures = 0
    /\ restartCalls = 0
    /\ lastTick = NoTick

\* the interval timer fires: performHealthCheck starts
TickStart(p) ==
    /\ isHealthCheckRunning
    /\ tick[p] = "idle"
    /\ \A q \in Ticks : q < p => tick[q] # "idle"
    /\ consecutiveFailures < MaxFailures
    /\ tick' = [tick EXCEPT ![p] = "health"]
    /\ UNCHANGED <<healthCheckFailureCount, isHealthCheckRunning, isInitialized,
                   consecutiveFailures, restartCalls, lastTick, nonHealth>>

\* performHealthCheck after healthCheck() and isRunning() settled, and
\* handleHealthCheckFailure up to the restartClient call
TickResult(p, health, active) ==
    /\ tick[p] = "health"
    /\ IF succeeds(health, active)
       THEN /\ healthCheckFailureCount' = 0
            /\ consecutiveFailures' = 0
            /\ restartCalls' = 0
            /\ tick' = [tick EXCEPT ![p] = "idle"]
       ELSE /\ healthCheckFailureCount' = healthCheckFailureCount + 1
            /\ consecutiveFailures' = consecutiveFailures + 1
            /\ IF shouldRestart(healthCheckFailureCount + 1)
               THEN /\ restartCalls' = restartCalls + 1
                    /\ tick' = [tick EXCEPT ![p] = "ensure"]
               ELSE /\ UNCHANGED restartCalls
                    /\ tick' = [tick EXCEPT ![p] = "idle"]
    /\ lastTick' = [health |-> health, active |-> active,
                    before |-> healthCheckFailureCount,
                    after |-> healthCheckFailureCount']
    /\ UNCHANGED <<isHealthCheckRunning, isInitialized, nonHealth>>

\* restartClient: ensureClientInited settles; on success initialize() starts
RestartEnsure(p, inited) ==
    /\ tick[p] = "ensure"
    /\ IF inited
       THEN /\ isInitialized' = FALSE
            /\ tick' = [tick EXCEPT ![p] = "upgrade"]
       ELSE /\ tick' = [tick EXCEPT ![p] = "idle"]
            /\ UNCHANGED isInitialized
    /\ UNCHANGED <<healthCheckFailureCount, isHealthCheckRunning, consecutiveFailures,
                   restartCalls, lastTick, nonHealth>>

UpgradeStates == {"firstInstall", "failed", "upgraded", "noUpdate", "needZgsm"}

\* stopHealthCheck (lines 728-742): the failure count it leaves
stopHealthCheck(running, count) == IF running THEN 0 ELSE count

\* initialize: checkAndUpgradeClient settles; stopHealthCheck unless it returned early
RestartUpgrade(p, state) ==
    /\ tick[p] = "upgrade"
    /\ CASE state = "failed" ->
              /\ tick' = [tick EXCEPT ![p] = "idle"]
              /\ UNCHANGED <<healthCheckFailureCount, isHealthCheckRunning,
                             consecutiveFailures, restartCalls>>
         [] state = "needZgsm" ->
              /\ tick' = [tick EXCEPT ![p] = "idle"]
              /\ healthCheckFailureCount' = 0
              /\ consecutiveFailures' = 0
              /\ restartCalls' = 0
              /\ UNCHANGED isHealthCheckRunning
         [] OTHER ->
              /\ tick' = [tick EXCEPT ![p] = "start"]
              /\ healthCheckFailureCount' =
                    stopHealthCheck(isHealthCheckRunning, healthCheckFailureCount)
              /\ consecutiveFailures' =
                    stopHealthCheck(isHealthCheckRunning, consecutiveFailures)
              /\ restartCalls' = stopHealthCheck(isHealthCheckRunning, restartCalls)
              /\ isHealthCheckRunning' = FALSE
    /\ UNCHANGED <<isInitialized, lastTick, nonHealth>>

\* initialize: startClient settles; on success startHealthCheck, and
\* handleHealthCheckFailure resets the counter
RestartStart(p, started) ==
    /\ tick[p] = "start"
    /\ tick' = [tick EXCEPT ![p] = "idle"]
    /\ IF started
       THEN /\ isInitialized' = TRUE
            /\ isHealthCheckRunning' = TRUE
            /\ healthCheckFailureCount' = 0
            /\ consecutiveFailures' = 0
            /\ restartCalls' = 0
       ELSE UNCHANGED <<isInitialized, isHealthCheckRunning, healthCheckFailureCount,
                        consecutiveFailures, restartCalls>>
    /\ UNCHANGED <<lastTick, nonHealth>>

(***************************************************************************)
(* ZgsmCodebaseIndexManager.getIndexStatus                                 *)
(***************************************************************************)
Workspaces == {"ws1", "ws2"}

Calls == 1..MaxCalls

\* what client.getIndexStatus may resolve to
Responses == {"v1", "v2"}

NoCall == [pc |-> "idle", workspace |-> "ws1", now |-> 0, request |-> 0,
           outcome |-> "none", soonAfter |-> FALSE]

NoRecent == [cached |-> FALSE, result |-> "none", timestamp |-> 0]

SIdle ==
    /\ pendingIndexStatusRequests = [w \in Workspaces |-> 0]
    /\ recentCompletedRequests = [w \in Workspaces |-> NoRecent]
    /\ now = 0
    /\ call = [c \in Calls |-> NoCall]
    /\ request = [c \in Calls |-> "none"]
    /\ overlapped = {}
    /\ completedAt = [w \in Workspaces |-> -1]

\* line 619: the result of a request that completed less than a second ago
isRecent(recent, at) == recent.cached /\ at - recent.timestamp < RECENT_MS

\* variant: a request in flight is never joined
hasPending_never(pending, workspace) == FALSE

\* line 628
hasPending(pending, workspace) == pending[workspace] # 0

\* lines 642-646: entries older than five minutes are dropped
sweep(recent, at) ==
    [w \in Workspaces |->
        IF recent[w].cached /\ at - recent[w].timestamp > EXPIRY_MS
        THEN NoRecent ELSE recent[w]]

\* the call is made less than one second after a successful request for the
\* workspace completed
SoonAfter(workspace) ==
    completedAt[workspace] >= 0 /\ now - completedAt[workspace] < 1000

\* getIndexStatus(workspace) up to its first await or return (lines 612-636)
GetIndexStatus(c, workspace) ==
    /\ call[c].pc = "idle"
    /\ \A d \in Calls : d < c => call[d].pc # "idle"
    /\ overlapped' = overlapped \cup
          { {c, d} : d \in { e \in Calls : call[e].pc \in {"awaiting", "returning"} } }
    /\ IF isRecent(recentCompletedRequests[workspace], now)
       THEN /\ call' = [call EXCEPT ![c] =
                  [pc |-> "returning", workspace |-> workspace, now |-> now,
                   request |-> 0,
                   outcome |-> recentCompletedRequests[workspace].result,
                   soonAfter |-> SoonAfter(workspace)]]
            /\ UNCHANGED <<pendingIndexStatusRequests, request>>
       ELSE IF hasPending(pendingIndexStatusRequests, workspace)
       THEN /\ call' = [call EXCEPT ![c] =
                  [pc |-> "awaiting", workspace |-> workspace, now |-> now,
                   request |-> pendingIndexStatusRequests[workspace],
                   outcome |-> "none", soonAfter |-> SoonAfter(workspace)]]
            /\ UNCHANGED <<pendingIndexStatusRequests, request>>
       ELSE /\ call' = [call EXCEPT ![c] =
                  [pc |-> "awaiting", workspace |-> workspace, now |-> now,
                   request |-> c, outcome |-> "none",
                   soonAfter |-> SoonAfter(workspace)]]
            /\ pendingIndexStatusRequests' =
                  [pendingIndexStatusRequests EXCEPT ![workspace] = c]
            /\ request' = [request EXCEPT ![c] = "started"]
    /\ UNCHANGED <<recentCompletedRequests, now, completedAt, nonStatus>>

\* a call answered from recentCompletedRequests resolves
ReturnRecent(c) ==
    /\ call[c].pc = "returning"
    /\ call' = [call EXCEPT ![c].pc = "done"]
    /\ UNCHANGED <<pendingIndexStatusRequests, recentCompletedRequests, now, request,
                   overlapped, completedAt, nonStatus>>

\* variant: whatever the request settled with is cached
cacheResult_always(recent, w, outcome, at) ==
    sweep([recent EXCEPT ![w] = [cached |-> TRUE, result |-> outcome, timestamp |-> at]], at)

\* lines 637-648: the statements after `await requestPromise` are skipped
\* when the promise rejects
cacheResult(recent, w, outcome, at) ==
    IF outcome = "error" THEN recent
    ELSE sweep([recent EXCEPT ![w] = [cached |-> TRUE, result |-> outcome, timestamp |-> at]], at)

\* the request of call r settles with outcome: every call awaiting it continues,
\* the creating call first (lines 637-653)
settle(r, outcome, stage) ==
    LET w == call[r].workspace
        at == call[r].now
    IN  /\ request' = [request EXCEPT ![r] = stage]
        /\ call' = [c \in Calls |->
              IF call[c].pc = "awaiting" /\ call[c].request = r
              THEN [call[c] EXCEPT !.pc = "done", !.outcome = outcome]
              ELSE call[c]]
        /\ recentCompletedRequests' = cacheResult(recentCompletedRequests, w, outcome, at)
        /\ pendingIndexStatusRequests' = [pendingIndexStatusRequests EXCEPT ![w] = 0]
        /\ completedAt' = IF outcome = "error" THEN completedAt
                          ELSE [completedAt EXCEPT ![w] = now]
        /\ UNCHANGED <<now, overlapped, nonStatus>>

\* _getIndexStatusInternal: ensureClientInited and readAccessToken settle; on
\* success client.getIndexStatus is called
RequestPrepared(r, ready) ==
    /\ request[r] = "started"
    /\ IF ready
       THEN /\ request' = [request EXCEPT ![r] = "sent"]
            /\ UNCHANGED <<pendingIndexStatusRequests, recentCompletedRequests, now,
                           call, overlapped, completedAt, nonStatus>>
       ELSE settle(r, "error", "failed")

\* client.getIndexStatus settles
RequestSettled(r, outcome) ==
    /\ request[r] = "sent"
    /\ settle(r, outcome, "answered")

\* the values Date.now() takes, in milliseconds
Instants == {0, 600, 1200, 301300}

\* time passes
Advance(instant) ==
    /\ instant > now
    /\ now' = instant
    /\ UNCHANGED <<pendingIndexStatusRequests, recentCompletedRequests, call, request,
                   overlapped, completedAt, nonStatus>>

(***************************************************************************)
(* ZgsmCodebaseIndexManager: initialize, restartClient,                    *)
(* checkAndUpgradeClient, and CodebaseIndexClient.startClient              *)
(***************************************************************************)
\* the versions the server announces as newest
Releases == { [major |-> 0, minor |-> 2, micro |-> 0],
              [major |-> 1, minor |-> 0, micro |-> 0] }

NoVersion == [major |-> 0, minor |-> 0, micro |-> 0]

\* getLocalVersion returns undefined: version.json is missing or unreadable
NoManifest == [present |-> FALSE, versionId |-> NoVersion, status |-> "-"]

\* what saveLocalVersion writes
Manifest(versionId, status) ==
    [present |-> TRUE, versionId |-> versionId, status |-> status]

NoThrow == [threw |-> FALSE, tagged |-> FALSE, message |-> "-"]

\* new Error(message), with or without the __NEED_ZGSM__ property
Throw(message, tagged) == [threw |-> TRUE, tagged |-> tagged, message |-> message]

\* ensureClientInited (lines 279-295): what it throws
ensureClientInited(m, provider) ==
    IF ~m.client THEN Throw("client", FALSE)
    ELSE IF ~m.clineProvider THEN Throw("clineProvider", FALSE)
    ELSE IF provider # "zgsm" THEN Throw("needZgsm", TRUE)
    ELSE NoThrow

\* catch (error) { throw new Error(errorMessage) }: the message is kept, the
\* properties of the caught error are not
rewrap(err) == [err EXCEPT !.tagged = FALSE]

\* variant: initialize() runs again although the manager is initialized
skipInitialize_never(initialized) == FALSE

\* initialize, lines 144-147
skipInitialize(initialized) == initialized

\* startHealthCheck (lines 712-723)
startHealthCheck(m) ==
    IF m.isHealthCheckRunning THEN m
    ELSE [m EXCEPT !.isHealthCheckRunning = TRUE, !.timers = @ + 1]

\* stopHealthCheck (lines 728-742): the interval timer is cleared
clearHealthCheck(m) ==
    IF ~m.isHealthCheckRunning THEN m
    ELSE [m EXCEPT !.isHealthCheckRunning = FALSE, !.timers = @ - 1]

IdleInit ==
    [pc |-> "idle", op |-> "-", after |-> FALSE, provider |-> "-",
     local |-> NoManifest, latest |-> NoVersion,
     kind |-> "-", state |-> "-", attempts |-> 0, did |-> {}]

NoneFinishedInit ==
    [op |-> "-", result |-> "-", error |-> NoThrow, after |-> FALSE, provider |-> "-",
     state |-> "-", did |-> {}]

NoOp == [op |-> "-", provider |-> "-", ensured |-> FALSE, error |-> NoThrow]

\* a freshly constructed manager on a machine without an installed client
GIdle ==
    /\ manager = [client |-> FALSE, clineProvider |-> FALSE, isInitialized |-> FALSE,
                  isHealthCheckRunning |-> FALSE, timers |-> 0]
    /\ apiProvider = "zgsm"
    /\ versionJson = NoManifest
    /\ binary = "absent"
    /\ initCall = IdleInit
    /\ finishedInit = NoneFinishedInit
    /\ succeeded = FALSE
    /\ lastOp = NoOp

AllIdle == initCall.pc = "idle"

\* the call settles: it returns or throws to its caller
Settle(this, result, err, mgr, succ) ==
    /\ initCall' = IdleInit
    /\ manager' = mgr
    /\ finishedInit' = [op |-> this.op, result |-> result, error |-> err,
                        after |-> this.after, provider |-> this.provider,
                        state |-> this.state, did |-> this.did]
    /\ succeeded' = IF result = "returned" /\ "initialized" \in this.did
                    THEN TRUE ELSE succ

\* initialize, lines 143-163: the guard, getLocalVersion, the construction of
\* the client (which throws on an incomplete configuration; the catch block,
\* lines 184-188, throws a new Error)
Begin(op, mgr, succ, constructed) ==
    LET this == [IdleInit EXCEPT !.op = op, !.after = succ, !.provider = apiProvider]
    IN  IF skipInitialize(mgr.isInitialized)
        THEN Settle(this, "returned", NoThrow, mgr, succ)
        ELSE IF ~constructed
        THEN Settle([this EXCEPT !.did = {"ran"}], "thrown",
                    Throw("config", FALSE), mgr, succ)
        ELSE /\ manager' = [mgr EXCEPT !.client = TRUE]
             /\ initCall' = [this EXCEPT !.pc = "check", !.did = {"ran"}]
             /\ succeeded' = succ
             /\ UNCHANGED finishedInit

\* initialize()
Initialize(constructed) ==
    /\ AllIdle
    /\ Begin("initialize", manager, succeeded, constructed)
    /\ UNCHANGED <<apiProvider, versionJson, binary, lastOp, nonManager>>

\* restartClient (lines 198-213): ensureClientInited, isInitialized = false,
\* initialize(); the catch block throws a new Error
RestartClient(constructed) ==
    /\ AllIdle
    /\ LET err == ensureClientInited(manager, apiProvider)
       IN  IF err.threw
           THEN Settle([IdleInit EXCEPT !.op = "restartClient",
                                           !.provider = apiProvider],
                       "thrown", rewrap(err), manager, succeeded)
           ELSE Begin("restartClient", [manager EXCEPT !.isInitialized = FALSE],
                      FALSE, constructed)
    /\ UNCHANGED <<apiProvider, versionJson, binary, lastOp, nonManager>>

\* initialize, lines 164-177: what it does with the state checkAndUpgradeClient
\* returned: throw, return, or stopHealthCheck and go on to startClient
Decided(this, state) ==
    LET settled == [this EXCEPT !.state = state]
    IN  CASE state = "failed" ->
               Settle(settled, "thrown", Throw("upgrade", FALSE), manager, succeeded)
          [] state = "needZgsm" ->
               Settle(settled, "returned", NoThrow, manager, succeeded)
          [] OTHER ->
               /\ manager' = clearHealthCheck(manager)
               /\ initCall' = [settled EXCEPT !.pc = "start"]
               /\ UNCHANGED <<finishedInit, succeeded>>

\* checkAndUpgradeClient, lines 219-232: getLocalVersion, the "downloading"
\* return, ensureClientInited; the catch block (268-276) maps what was thrown
CheckLocal ==
    /\ initCall.pc = "check"
    /\ LET this == [initCall EXCEPT !.local = versionJson,
                                       !.did = @ \cup {"check"}
                                          \cup (IF ~versionJson.present \/ binary = "absent"
                                                THEN {"missing"} ELSE {})]
           err == ensureClientInited(manager, apiProvider)
       IN  IF versionJson.present /\ versionJson.status = "downloading"
           THEN Decided(this, "noUpdate")
           ELSE IF err.threw
           THEN IF err.tagged
                THEN Decided(this, "needZgsm")
                ELSE Decided([this EXCEPT !.did = @ \cup {"failure"}], "failed")
           ELSE /\ initCall' = [this EXCEPT !.pc = "latest"]
                /\ UNCHANGED <<manager, finishedInit, succeeded>>
    /\ UNCHANGED <<apiProvider, versionJson, binary, lastOp, nonManager>>

\* saveLocalVersion (lines 401-431): version.json is written with the version
\* and the status; when the write throws, the error is logged and the file
\* stays as it was
saveLocalVersion(file, versionId, status, written) ==
    IF written THEN Manifest(versionId, status) ELSE file

\* stopExistingClient and the start of downloadAndInstallClient (lines 352-357):
\* version.json is written with status "downloading"
Install(this, kind, written) ==
    /\ initCall' = [this EXCEPT !.pc = "download", !.kind = kind,
                                   !.did = @ \cup {"stop"}]
    /\ versionJson' = saveLocalVersion(versionJson, this.latest, "downloading", written)
    /\ UNCHANGED <<manager, finishedInit, succeeded>>

\* checkAndUpgradeClient, lines 233-247: getLatestVersion settles; with no
\* manifest or no file at the target path the latest version is installed
LatestFetched(ok, latest, written) ==
    /\ initCall.pc = "latest"
    /\ LET missing == ~initCall.local.present \/ binary = "absent"
           newer == shouldUpdate(latest, initCall.local.versionId)
           this == [initCall EXCEPT !.latest = latest,
                       !.did = (@ \ {"missing"})
                                  \cup (IF missing THEN {"missing"} ELSE {})
                                  \cup (IF ~missing /\ newer THEN {"newer"} ELSE {})]
       IN  IF ~ok
           THEN /\ Decided([initCall EXCEPT !.did = @ \cup {"failure"}], "failed")
                /\ UNCHANGED versionJson
           ELSE IF missing
           THEN Install(this, "firstInstall", written)
           ELSE /\ initCall' = [this EXCEPT !.pc = "compare"]
                /\ UNCHANGED <<manager, finishedInit, succeeded, versionJson>>
    /\ UNCHANGED <<apiProvider, binary, lastOp, nonManager>>

\* checkAndUpgradeClient, lines 248-266: client.shouldUpdate settles
ShouldUpdateDone(ok, written) ==
    /\ initCall.pc = "compare"
    /\ LET this == initCall
       IN  IF ~ok
           THEN /\ Decided([this EXCEPT !.did = @ \cup {"failure"}], "failed")
                /\ UNCHANGED versionJson
           ELSE IF shouldUpdate(this.latest, this.local.versionId)
           THEN Install(this, "upgraded", written)
           ELSE /\ Decided(this, "noUpdate")
                /\ UNCHANGED versionJson
    /\ UNCHANGED <<apiProvider, binary, lastOp, nonManager>>

\* what a download that did not succeed leaves at the target path
Leftovers == {"keep", "absent", "partial"}

leave(left, file) == IF left = "keep" THEN file ELSE left

\* downloadAndInstallClient, lines 358-393: the client's download settles; the
\* file is complete and verified, or version.json gets status "failed" and the
\* call throws
DownloadDone(success, left, written) ==
    /\ initCall.pc = "download"
    /\ LET this == [initCall EXCEPT !.did = @ \cup {"download"}]
       IN  IF success
           THEN /\ binary' = "verified"
                /\ versionJson' = saveLocalVersion(versionJson, this.latest, "downloaded",
                                                   written)
                /\ Decided(this, this.kind)
           ELSE /\ binary' = leave(left, binary)
                /\ versionJson' = saveLocalVersion(versionJson, this.latest, "failed",
                                                   written)
                /\ Decided([this EXCEPT !.did = @ \cup {"failure"}], "failed")
    /\ UNCHANGED <<apiProvider, lastOp, nonManager>>

\* initialize, lines 178-182: isInitialized = true, startHealthCheck
Complete(this) ==
    Settle([this EXCEPT !.did = @ \cup {"initialized"}
                              \cup (IF manager.isHealthCheckRunning THEN {} ELSE {"timer"})],
           "returned", NoThrow,
           startHealthCheck([manager EXCEPT !.isInitialized = TRUE]), succeeded)

\* the file at the target path is the complete result of a verified download
\* and version.json records that install as done
verifiedInstall ==
    binary = "verified" /\ versionJson.present /\ versionJson.status = "downloaded"

\* exec(command) of the file at the target path
launch == IF verifiedInstall THEN {"exec"} ELSE {"exec", "execUnverified"}

StartOutcomes == {"running", "notRunning", "error"}

\* CodebaseIndexClient.startClient (part_003, lines 315-349), one pass of the
\* loop: exec, the wait, isRunning; "error" is an exception in the try block
StartAttempt(outcome) ==
    /\ initCall.pc = "start"
    /\ LET n == initCall.attempts + 1
           this == [initCall EXCEPT !.attempts = n,
                       !.did = @ \cup (IF outcome = "error" THEN {} ELSE launch)]
       IN  CASE outcome = "running" ->
                  /\ initCall' = [this EXCEPT !.pc = "service"]
                  /\ UNCHANGED <<manager, finishedInit, succeeded>>
             [] outcome = "notRunning" ->
                  IF n < startMaxRetries
                  THEN /\ initCall' = this
                       /\ UNCHANGED <<manager, finishedInit, succeeded>>
                  ELSE Complete([this EXCEPT !.did = @ \cup {"exhausted"}])
             [] outcome = "error" ->
                  IF n >= startMaxRetries
                  THEN Settle([this EXCEPT !.did = @ \cup {"exhausted"}], "thrown",
                              Throw("start", FALSE), manager, succeeded)
                  ELSE /\ initCall' = this
                       /\ UNCHANGED <<manager, finishedInit, succeeded>>
    /\ UNCHANGED <<apiProvider, versionJson, binary, lastOp, nonManager>>

\* startService (part_003, lines 354-385) found the running service;
\* startClient returns
ServiceFound ==
    /\ initCall.pc = "service"
    /\ Complete([initCall EXCEPT !.did = @ \cup {"running"}])
    /\ UNCHANGED <<apiProvider, versionJson, binary, lastOp, nonManager>>

\* setProvider (lines 120-122)
SetProvider ==
    /\ ~manager.clineProvider
    /\ manager' = [manager EXCEPT !.clineProvider = TRUE]
    /\ UNCHANGED <<apiProvider, versionJson, binary, initCall,
                   finishedInit, succeeded, lastOp, nonManager>>

ApiProviders == {"zgsm", "other"}

\* the user activates a profile of another provider, between two calls
SwitchProvider(p) ==
    /\ AllIdle
    /\ p # apiProvider
    /\ apiProvider' = p
    /\ UNCHANGED <<manager, versionJson, binary, initCall,
                   finishedInit, succeeded, lastOp, nonManager>>

\* the manager of another window on the same home directory decides to
\* install (lines 239-261) and starts its download
OtherWindowBegins(latest, written) ==
    /\ ~(versionJson.present /\ versionJson.status = "downloading")
    /\ \/ ~versionJson.present
       \/ binary = "absent"
       \/ shouldUpdate(latest, versionJson.versionId)
    /\ versionJson' = Manifest(latest, "downloading")
    /\ binary' = IF written THEN "partial" ELSE binary
    /\ UNCHANGED <<manager, apiProvider, initCall, finishedInit, succeeded, lastOp,
                   nonManager>>

\* the other window's download settles
OtherWindowEnds(success, left) ==
    /\ versionJson.present /\ versionJson.status = "downloading"
    /\ initCall.pc # "download"
    /\ IF success
       THEN /\ binary' = "verified"
            /\ versionJson' = Manifest(versionJson.versionId, "downloaded")
       ELSE /\ binary' = leave(left, binary)
            /\ versionJson' = Manifest(versionJson.versionId, "failed")
    /\ UNCHANGED <<manager, apiProvider, initCall, finishedInit, succeeded, lastOp,
                   nonManager>>

\* the operations that call ensureClientInited inside try / catch / throw new
\* Error (lines 458-693), and stopExistingClient (lines 190-193), which has no
\* catch block
Wrapped == {"publishWorkspaceEvents", "triggerIndexBuild", "healthCheck", "syncToken",
            "checkIgnoreFiles", "getIndexStatus", "toggleIndexSwitch"}

Operations == Wrapped \cup {"stopExistingClient"}

\* one operation, issued between two initialize calls, from its call to its
\* result. early: triggerIndexBuild repeats the previous type within 300 ms
\* (lines 477-478), or getIndexStatus finds a recent result (lines 618-626);
\* answered: the client's request succeeds
Operation(op, early, answered) ==
    /\ AllIdle
    /\ early => op \in {"triggerIndexBuild", "getIndexStatus"}
    /\ LET err == ensureClientInited(manager, apiProvider)
           thrown == IF op \in Wrapped THEN rewrap(err) ELSE err
       IN  lastOp' =
             IF early
             THEN [op |-> op, provider |-> apiProvider, ensured |-> FALSE,
                   error |-> IF op = "triggerIndexBuild"
                             THEN Throw("duplicate", FALSE) ELSE NoThrow]
             ELSE IF err.threw
             THEN [op |-> op, provider |-> apiProvider, ensured |-> TRUE,
                   error |-> thrown]
             ELSE [op |-> op, provider |-> apiProvider, ensured |-> TRUE,
                   error |-> IF answered THEN NoThrow ELSE Throw("request", FALSE)]
    /\ UNCHANGED <<manager, apiProvider, versionJson, binary, initCall,
                   finishedInit, succeeded, nonManager>>

(***************************************************************************)
(* InlineCompletionProvider.provideInlineCompletionItems and the document   *)
(* change listener (inlineCompletionProvider.ts)                            *)
(***************************************************************************)
Providers == 1..MaxProvideInFlight

NotProviding == [pc |-> "idle", aborted |-> FALSE]

\* a freshly constructed InlineCompletionProvider and tracker
PIdle ==
    /\ provide = [c \in Providers |-> NotProviding]
    /\ currentCompletionId = 0
    /\ expectedFor = 0
    /\ acceptedIds = {}
    /\ rejectedIds = {}
    /\ overwritten = {}
    /\ nextShown = 1

\* line 63: tracker.hasExpectedAcceptance() && this.currentCompletionId
rejectPending(expected, current) == expected # 0 /\ current # 0

\* provideInlineCompletionItems begins (lines 54-67): a pending expectation is
\* recorded as rejected and cleared; the call suspends on isProviderSupported()
ProvideBegin(c) ==
    /\ provide[c].pc = "idle"
    /\ \A b \in Providers : b < c => provide[b].pc # "idle"
    /\ nextShown <= MaxShown
    /\ provide' = [provide EXCEPT ![c] = [pc |-> "entered", aborted |-> FALSE]]
    /\ IF rejectPending(expectedFor, currentCompletionId)
       THEN /\ rejectedIds' = rejectedIds \cup {currentCompletionId}
            /\ expectedFor' = 0
       ELSE UNCHANGED <<rejectedIds, expectedFor>>
    /\ UNCHANGED <<currentCompletionId, acceptedIds, overwritten, nextShown, nonProvider>>

\* lines 67-82: the provider is not supported or completion is not allowed
\* (the call returns []), or the input is ready and the call enters
\* completionProvider.provideInlineCompletionItems(input), whose cancel()
\* aborts the tokens of the calls already in it
ProvidePrepared(c, allowed) ==
    /\ provide[c].pc = "entered"
    /\ provide' = IF allowed
                  THEN [b \in Providers |->
                          IF b = c THEN [pc |-> "inner", aborted |-> FALSE]
                          ELSE IF provide[b].pc = "inner"
                               THEN [provide[b] EXCEPT !.aborted = TRUE]
                               ELSE provide[b]]
                  ELSE [provide EXCEPT ![c] = NotProviding]
    /\ UNCHANGED <<currentCompletionId, expectedFor, acceptedIds, rejectedIds,
                   overwritten, nextShown, nonProvider>>

\* lines 83-99: the completion provider settled; without a completion the call
\* returns [], otherwise currentCompletionId and the expectation are set and
\* the item is returned
ProvideSettled(c, completion) ==
    /\ provide[c].pc = "inner"
    /\ completion => ~provide[c].aborted
    /\ provide' = [provide EXCEPT ![c] = NotProviding]
    /\ IF completion
       THEN /\ currentCompletionId' = nextShown
            /\ overwritten' = overwritten \cup
                  (IF expectedFor # 0 /\ expectedFor \notin (acceptedIds \cup rejectedIds)
                   THEN {expectedFor} ELSE {})
            /\ expectedFor' = nextShown
            /\ nextShown' = nextShown + 1
       ELSE UNCHANGED <<currentCompletionId, overwritten, expectedFor, nextShown>>
    /\ UNCHANGED <<acceptedIds, rejectedIds, nonProvider>>

\* lines 83-99 when the completion provider answered from its history
\* (completionProvider.ts:161-170): the result carries the completionId of
\* the earlier suggestion, here one that was shown before
ProvideSettledFromCache(c, completionId) ==
    /\ provide[c].pc = "inner"
    /\ ~provide[c].aborted
    /\ completionId \in 1..(nextShown - 1)
    /\ provide' = [provide EXCEPT ![c] = NotProviding]
    /\ currentCompletionId' = completionId
    /\ overwritten' = overwritten \cup
          (IF expectedFor # 0 /\ expectedFor \notin (acceptedIds \cup rejectedIds)
           THEN {expectedFor} ELSE {})
    /\ expectedFor' = completionId
    /\ UNCHANGED <<nextShown, acceptedIds, rejectedIds, nonProvider>>

\* the document change listener (lines 194-235) found the expected text:
\* checkTextWasAccepted cleared the expectation, the acceptance is recorded
TextAccepted ==
    /\ expectedFor # 0
    /\ currentCompletionId # 0
    /\ expectedFor' = 0
    /\ acceptedIds' = acceptedIds \cup {currentCompletionId}
    /\ currentCompletionId' = 0
    /\ UNCHANGED <<provide, rejectedIds, overwritten, nextShown, nonProvider>>

(***************************************************************************)
(* CodebaseIndexClient.startService (part_003, lines 354-385)               *)
(***************************************************************************)
\* the file is missing, or cannot be parsed, or lists no service of that name
NoRegistry(file) == [file |-> file, status |-> "-", protocol |-> "-", port |-> 0]

\* the file lists the service with a status, a protocol and a port
Entry(status, protocol, port) ==
    [file |-> "entry", status |-> status, protocol |-> protocol, port |-> port]

Registries ==
    { NoRegistry(f) : f \in {"absent", "invalid", "noEntry"} }
    \cup { Entry(st, pr, 8080) : st \in {"running", "stopped"}, pr \in {"http", "https"} }

NoHost == [set |-> FALSE, protocol |-> "-", port |-> 0]

\* `${protocol}://localhost:${port}`
Host(protocol, port) == [set |-> TRUE, protocol |-> protocol, port |-> port]

\* a freshly constructed client; the service has not registered yet
WIdle ==
    /\ registry = NoRegistry("absent")
    /\ servicePc = "idle"
    /\ retryTime = 0
    /\ pollTimer = 0
    /\ serverHost = NoHost
    /\ seen = NoRegistry("absent")

\* WorkspaceEventMonitor (part_008): its configuration and the inputs drawn
\* for its handlers
DEFAULT_CONFIG ==
    [enabled |-> TRUE, debounceMs |-> 1000, batchSize |-> 30,
     maxRetries |-> 2, retryDelayMs |-> 2000]

TickMs == 1000
MonitorStart == 5000
MonitorInstants == {MonitorStart + TickMs * i : i \in 0..MaxMonitorTicks}

Paths == {"/a"}
Folder == "/w"
EventUris == {[fsPath |-> "/a", scheme |-> "file"],
              [fsPath |-> "/a", scheme |-> "untitled"]}
EventKeys ==
    {<<kind, p>> : kind \in {"open", "delete"}, p \in Paths}
        \cup {<<"workspace:open", Folder>>, <<"workspace:close", Folder>>}
\* the files of one FileDeleteEvent
FileLists == {<<u>> : u \in EventUris} \cup {<<u, v>> : u, v \in EventUris}
BatchSizes == {2, DEFAULT_CONFIG.batchSize}

NoKey == <<"none", "">>
NoAdd ==
    [key |-> NoKey, buffered |-> FALSE, sizeBefore |-> 0, sizeAfter |-> 0,
     stamp |-> 0, stored |-> 0, flushed |-> FALSE]

NotSending == [pc |-> "idle", retryCount |-> 0, attempts |-> 0, delayMs |-> 0]

EIdle == send = [s \in 1..MaxSendsInFlight |-> NotSending]

NoHandler == [name |-> "none", enabled |-> TRUE, fileUris |-> 0, kept |-> TRUE]

BIdle ==
    /\ monitor = [eventBuffer |-> <<>>, flushTimer |-> 0, lastFlushTime |-> 0,
                  config |-> DEFAULT_CONFIG]
    /\ monitorNow = MonitorStart
    /\ workspaceFolders = TRUE
    /\ eventsAdded = 0
    /\ latestStamp = [k \in EventKeys |-> 0]
    /\ lastAdd = NoAdd
    /\ lastHandler = NoHandler

\* variant: any entry of that name is taken
serviceRunning_anyStatus(r) == r.file = "entry"

\* lines 358-372: the file exists, parses, lists the service, and its status
\* is "running"
serviceRunning(r) == r.file = "entry" /\ r.status = "running"

\* variant: five seconds whatever the accumulated wait
interval_short(time) == 5000

\* line 381
interval(time) == IF time < 5 * 60 * 1000 THEN 5000 ELSE 30000

\* startService(versionInfo) is called by startClient
StartService ==
    /\ servicePc = "idle"
    /\ servicePc' = "check"
    /\ retryTime' = 0
    /\ UNCHANGED <<registry, pollTimer, serverHost, seen, nonService>>

\* the try block (lines 357-377): serverHost is set and the call returns, or
\* the catch block sets the timer
ReadRegistry ==
    /\ servicePc = "check"
    /\ IF serviceRunning(registry)
       THEN /\ serverHost' = Host(registry.protocol, registry.port)
            /\ seen' = registry
            /\ servicePc' = "returned"
            /\ UNCHANGED pollTimer
       ELSE /\ pollTimer' = interval(retryTime)
            /\ servicePc' = "wait"
            /\ UNCHANGED <<serverHost, seen>>
    /\ UNCHANGED <<registry, retryTime, nonService>>

\* the timer fires (lines 382-383): startService(versionInfo, retryTime + interval);
\* the accumulated wait is followed up to MaxRetryTime
TimerFires ==
    /\ servicePc = "wait"
    /\ servicePc' = "check"
    /\ retryTime' = IF retryTime + pollTimer > MaxRetryTime
                    THEN retryTime ELSE retryTime + pollTimer
    /\ pollTimer' = 0
    /\ UNCHANGED <<registry, serverHost, seen, nonService>>

\* the service manager rewrites the registry file
RegistryWritten(r) ==
    /\ r # registry
    /\ registry' = r
    /\ UNCHANGED <<servicePc, retryTime, pollTimer, serverHost, seen, nonService>>

Init == CInit /\ MIdle /\ HIdle /\ TIdle /\ VIdle /\ DIdle /\ KIdle /\ SIdle /\ GIdle /\ PIdle /\ WIdle /\ BIdle /\ EIdle

\* the extension's own calls: InlineCompletionProvider passes no token
\* (inlineCompletionProvider.ts:83)
Next ==
    \/ \E r \in Slot, in \in Inputs : Start(r, in, FALSE, FALSE)
    \/ \E r \in Slot, c \in BOOLEAN : PrepareDone(r, c)
    \/ \E r \in Slot : DebounceDone(r)
    \/ \E r \in Slot, choices \in Completions : FetchResolved(r, choices, input[r].id)
    \/ \E r \in Slot, e \in BasicErrors : FetchRejected(r, e)
    \/ Cancel

Spec == Init /\ [][Next]_vars

\* the public method with its optional token parameter, on one input
OneInput == { [prefix |-> <<>>, suffix |-> <<>>] }

OneCompletion == { << <<"x">> >> }

NextToken ==
    \/ \E r \in Slot, in \in OneInput, ext \in BOOLEAN, ea \in BOOLEAN :
          Start(r, in, ext, ea)
    \/ \E r \in Slot, c \in BOOLEAN : PrepareDone(r, c)
    \/ \E r \in Slot : DebounceDone(r)
    \/ \E r \in Slot, choices \in OneCompletion : FetchResolved(r, choices, input[r].id)
    \/ \E r \in Slot, e \in Errors : FetchRejected(r, e)
    \/ Cancel
    \/ \E r \in Slot : AbortExternal(r)

SpecToken == Init /\ [][NextToken]_vars

InitMatch == CInit /\ MDraw /\ HIdle /\ TIdle /\ VIdle /\ DIdle /\ KIdle /\ SIdle /\ GIdle /\ PIdle /\ WIdle /\ BIdle /\ EIdle

NextMatch == Match

SpecMatch == InitMatch /\ [][NextMatch]_vars

NextHistory ==
    \/ \E k \in 1..(MAX_SUGGESTIONS_HISTORY + MaxExtraInserts) : Insert(k)
    \/ \E k \in 1..(MAX_SUGGESTIONS_HISTORY + MaxExtraInserts) : InsertRecurring(k)
    \/ \E k \in 0..(MAX_SUGGESTIONS_HISTORY + MaxExtraInserts + 1) : Read(k)

SpecHistory == Init /\ [][NextHistory]_vars

NextTracker ==
    \/ \E uri \in Uris, text \in GhostTexts, line \in 0..MaxLine, character \in 0..MaxCharacter :
          SetExpected(uri, text, line, character)
    \/ \E offset \in 0..MaxCharacter, text \in EditTexts : Edit(offset, text)
    \/ \E uri \in Uris, line \in 0..MaxLine, character \in 0..MaxCharacter :
          Check(uri, line, character)
    \/ ClearExpected

SpecTracker == Init /\ [][NextTracker]_vars

InitVersion == CInit /\ MIdle /\ HIdle /\ TIdle /\ VDraw /\ DIdle /\ KIdle /\ SIdle /\ GIdle /\ PIdle /\ WIdle /\ BIdle /\ EIdle

NextVersion == \E fetched \in BOOLEAN : ShouldUpdate(fetched)

SpecVersion == InitVersion /\ [][NextVersion]_vars

NextDownload ==
    \/ \E checksum \in Checksums, os \in OperatingSystems : DownloadClient(checksum, os)
    \/ \E content \in Contents : AttemptSucceeds(content)
    \/ \E kind \in FailureKinds, written \in BOOLEAN : AttemptFails(kind, written)
    \/ RetryWaitDone
    \/ CancelDownload
    \/ VerifyEnd
    \/ VerifyReadError
    \/ ChmodDone
    \/ UnlinkDone

SpecDownload == Init /\ [][NextDownload]_vars

NextHealth ==
    \/ \E p \in Ticks : TickStart(p)
    \/ \E p \in Ticks, health \in HealthResults, active \in BOOLEAN :
          TickResult(p, health, active)
    \/ \E p \in Ticks, inited \in BOOLEAN : RestartEnsure(p, inited)
    \/ \E p \in Ticks, state \in UpgradeStates : RestartUpgrade(p, state)
    \/ \E p \in Ticks, started \in BOOLEAN : RestartStart(p, started)

SpecHealth == Init /\ [][NextHealth]_vars

NextStatus ==
    \/ \E c \in Calls, workspace \in Workspaces : GetIndexStatus(c, workspace)
    \/ \E c \in Calls : ReturnRecent(c)
    \/ \E r \in Calls, ready \in BOOLEAN : RequestPrepared(r, ready)
    \/ \E r \in Calls, outcome \in Responses \cup {"error"} : RequestSettled(r, outcome)
    \/ \E instant \in Instants : Advance(instant)

SpecStatus == Init /\ [][NextStatus]_vars

\* the calls made on the manager of this window; Saved: whether the writes of
\* version.json go through
ManagerSteps(Saved) ==
    \/ \E constructed \in BOOLEAN : Initialize(constructed)
    \/ \E constructed \in BOOLEAN : RestartClient(constructed)
    \/ CheckLocal
    \/ \E ok \in BOOLEAN, latest \in Releases, written \in Saved :
          LatestFetched(ok, latest, written)
    \/ \E ok \in BOOLEAN, written \in Saved : ShouldUpdateDone(ok, written)
    \/ \E success \in BOOLEAN, left \in Leftovers, written \in Saved :
          DownloadDone(success, left, written)
    \/ \E outcome \in StartOutcomes : StartAttempt(outcome)
    \/ ServiceFound
    \/ SetProvider
    \/ \E p \in ApiProviders : SwitchProvider(p)

\* on a home directory that can be written
ManagerCalls == ManagerSteps({TRUE})

NextManager ==
    \/ ManagerCalls
    \/ \E latest \in Releases, written \in BOOLEAN : OtherWindowBegins(latest, written)
    \/ \E success \in BOOLEAN, left \in Leftovers : OtherWindowEnds(success, left)

SpecManager == Init /\ [][NextManager]_vars

\* the public operations of one window
NextOperations ==
    \/ ManagerCalls
    \/ \E op \in Operations, early \in BOOLEAN, answered \in BOOLEAN :
          Operation(op, early, answered)

SpecOperations == Init /\ [][NextOperations]_vars

\* requests of the editor for inline completions, overlapping, and edits that
\* accept the suggestion shown
NextProvider ==
    \/ \E c \in Providers : ProvideBegin(c)
    \/ \E c \in Providers, allowed \in BOOLEAN : ProvidePrepared(c, allowed)
    \/ \E c \in Providers, completion \in BOOLEAN : ProvideSettled(c, completion)
    \/ \E c \in Providers, completionId \in 1..MaxShown : ProvideSettledFromCache(c, completionId)
    \/ TextAccepted

SpecProvider == Init /\ [][NextProvider]_vars

NextService ==
    \/ StartService
    \/ ReadRegistry
    \/ TimerFires
    \/ \E r \in Registries : RegistryWritten(r)

\* the call's own steps are taken when they can be: the synchronous try block
\* and the timer of the event loop
SpecService ==
    /\ Init
    /\ [][NextService]_vars
    /\ WF_vars(StartService)
    /\ WF_vars(ReadRegistry)
    /\ WF_vars(TimerFires)

\* one window alone, on a home directory where a write may fail
NextInstall == ManagerSteps(BOOLEAN)

SpecInstall == Init /\ [][NextInstall]_vars

\* one window alone, every write going through
SpecInstallSaved == Init /\ [][ManagerCalls]_vars


(***************************************************************************)
(* Claims about the completion pipeline                                    *)
(***************************************************************************)
\* entry e serves a request (prefix, suffix): exactly, or by partial typing
EntryMatches(e, prefix, suffix) ==
    /\ e.suffix = suffix
    /\ \/ e.prefix = prefix
       \/ /\ e.text # <<>>
          /\ \E typed \in {substring(prefix, n) : n \in 0..Len(prefix)} :
                /\ e.prefix \o typed = prefix
                /\ \E rest \in {substring(e.text, n) : n \in 0..Len(e.text)} :
                      typed \o rest = e.text

\* what entry e gives a request it serves
EntryAnswer(e, prefix) ==
    IF e.prefix = prefix THEN e.text
    ELSE CHOOSE rest \in {substring(e.text, n) : n \in 0..Len(e.text)} :
            e.prefix \o SubSeq(e.text, 1, Len(e.text) - Len(rest)) = prefix

\* call r runs its cache lookup in this step, past the debounce and abort checks
LookupStep(r) == pc[r] = "debounce" /\ ~aborted[r] /\ pc'[r] # "debounce"

\* C1 (as stated): with an entry of the request's (prefix, suffix) in the history,
\* the call returns that entry's text verbatim with cacheHit = true and issues no
\* network request.
C1_ExactEntryReturnedVerbatim ==
    finished.exactTexts # {} =>
        /\ finished.result.kind = "outcome"
        /\ finished.result.cacheHit
        /\ finished.netCalls = 0
        /\ finished.result.completion \in finished.exactTexts

\* C1 (amended): with an entry of the request's (prefix, suffix) in the history,
\* the call returns with cacheHit = true and no network request, and the text is
\* the answer of the most recently inserted entry that serves the request, exactly
\* or by partial typing.
C1_MostRecentMatchReturned ==
    [][\A r \in Slot :
         (LookupStep(r) /\ ExactTexts(suggestionsHistory, input[r].prefix,
                                      input[r].suffix) # {}) =>
            LET serving == { i \in 1..Len(suggestionsHistory) :
                               EntryMatches(suggestionsHistory[i], input[r].prefix,
                                            input[r].suffix) }
                last == CHOOSE i \in serving : \A j \in serving : j <= i
            IN  /\ finished'.result.kind = "outcome"
                /\ finished'.result.cacheHit
                /\ finished'.netCalls = 0
                /\ netCalls'[r] = 0
                /\ finished'.result.completion =
                       EntryAnswer(suggestionsHistory[last], input[r].prefix)
                /\ finished'.result.completionId = suggestionsHistory[last].completionId
      ]_vars

\* C1 witness: a call whose (prefix, suffix) is an entry's was answered from the
\* history with that entry's text, without a network request
C1_Witness ==
    /\ finished.exit = "cache"
    /\ finished.exactTexts # {}
    /\ finished.result.completion \in finished.exactTexts
    /\ finished.netCalls = 0

InHistory(hist, text, prefix, suffix) ==
    \E i \in 1..Len(hist) :
        hist[i].text = text /\ hist[i].prefix = prefix /\ hist[i].suffix = suffix

FetchResolvedStep(r) == pc[r] = "fetch" /\ pc'[r] = "idle" /\ finished'.fetched.got

Typed == { typed \in Strings(MaxStrLen) : mEntry.prefix \o typed = mPrefix }

\* C2: for a cached entry with non-empty text, a request with the cached suffix
\* and prefix = cachedPrefix + typed, typed a prefix of text, gets the rest of
\* text after typed; if typed is no prefix of text, or the suffix differs, the
\* entry does not match.
C2_PartialTypingReuse ==
    (mResult # NotApplied /\ mEntry.text # <<>>) =>
        /\ \A typed \in Typed :
              IF mSuffix = mEntry.suffix
                 /\ \E rest \in Strings(MaxStrLen) : typed \o rest = mEntry.text
              THEN /\ mResult.found
                   /\ typed \o mResult.text = mEntry.text
                   /\ mResult.completionId = mEntry.completionId
              ELSE ~mResult.found
        /\ mSuffix # mEntry.suffix => ~mResult.found

\* C2 witness: the user typed a proper, non-empty part of the suggestion
C2_Witness ==
    /\ mResult.found
    /\ mEntry.text # <<>>
    /\ mPrefix # mEntry.prefix
    /\ mResult.text # <<>>
    /\ mResult.text # mEntry.text

\* C3: the history never holds more than 20 entries; it is the last (at most
\* 20) suggestions pushed, in insertion order, so the 21st distinct insertion
\* evicts the earliest one, whatever was read in between.
C3_HistoryBoundedFifo ==
    /\ Len(suggestionsHistory) <= 20
    /\ Len(suggestionsHistory) = IF Len(hLog) < 20 THEN Len(hLog) ELSE 20
    /\ suggestionsHistory =
          SubSeq(hLog, Len(hLog) - Len(suggestionsHistory) + 1, Len(hLog))

\* C3 witness: 21 distinct suggestions were inserted, the first one is gone and
\* the other 20 are held in insertion order, after a read that hit
C3_Witness ==
    /\ Len(hLog) = 21
    /\ \A i, j \in 1..21 : i # j => hLog[i] # hLog[j]
    /\ Len(suggestionsHistory) = 20
    /\ \A i \in 1..20 : suggestionsHistory[i] = hLog[i + 1]
    /\ hLastRead.found

(***************************************************************************)
(* Claims about TextAcceptanceTracker                                      *)
(***************************************************************************)
\* C6: checkTextWasAccepted returns true iff an expectation is pending and (a)
\* the document URI is the expectation's, (b) the document version is greater
\* than the recorded one, (c) the new cursor is the predicted end position and
\* (d) the text between predicted start and end is the expected text; a true
\* result clears the expectation.
C6_AcceptedIffAllFour ==
    lastCheck.called =>
        /\ lastCheck.result <=>
              (lastCheck.pending /\ lastCheck.sameUri /\ lastCheck.newer
                 /\ lastCheck.atEnd /\ lastCheck.sameText)
        /\ lastCheck.result => expectedAcceptance = Null

\* C6, second part: a check right after a check that returned true returns false
C6_SecondCheckFalse ==
    [][(lastCheck.called /\ lastCheck.result /\ lastCheck'.called
          /\ lastCheck'.n # lastCheck.n) => ~lastCheck'.result]_vars

\* C6 witness: a multi-line suggestion was confirmed and the expectation cleared
C6_Witness ==
    /\ lastCheck.called
    /\ lastCheck.result
    /\ expectedAcceptance = Null
    /\ docVersion > 1

(***************************************************************************)
(* Claims about VersionApi and FileDownloader                              *)
(***************************************************************************)
\* the triple as one number: the fields are below MaxVersionField + 1
Weight(v) ==
    (v.major * (MaxVersionField + 1) + v.minor) * (MaxVersionField + 1) + v.micro

\* C7: for all local and remote triples (major, minor, micro), shouldUpdate
\* returns true exactly when the remote triple is greater than the local one in
\* lexicographic order, and false when they are equal or the remote is lower.
C7_LexicographicUpdate ==
    updateResult \in {"true", "false"} =>
        (updateResult = "true" <=> Weight(latestVersion) > Weight(currentVersion))

\* C7 witness: the remote minor is higher and the remote micro lower ({1,2,0}
\* against {1,1,2}), and shouldUpdate returned true
C7_Witness ==
    /\ updateResult = "true"
    /\ latestVersion.major = currentVersion.major
    /\ latestVersion.minor > currentVersion.minor
    /\ latestVersion.micro < currentVersion.micro

CaseVariants == { {"a", "A"}, {"b", "B"} }

SameIgnoringCase(x, y) ==
    /\ Len(x) = Len(y)
    /\ \A i \in 1..Len(x) : x[i] = y[i] \/ {x[i], y[i]} \in CaseVariants

C9_ThirdFailureRestartsOnce ==
    /\ healthCheckFailureCount = consecutiveFailures
    /\ consecutiveFailures \in {1, 2} => restartCalls = 0
    /\ consecutiveFailures = MAX_FAILURE_COUNT + 1 => restartCalls = 1

\* C9 witness: three failed ticks in a row and the restart of the third under way
C9_Witness ==
    /\ consecutiveFailures = 3
    /\ restartCalls = 1
    /\ \E p \in Ticks : tick[p] = "ensure"

\* the two calls were answered by one request, which reached the client once
\* when it was answered, and got the same outcome
Shared(c, d) ==
    /\ call[c].request = call[d].request
    /\ call[c].request # 0
    /\ (call[c].pc = "done" /\ call[d].pc = "done") =>
          /\ call[c].outcome = call[d].outcome
          /\ call[c].outcome # "error" => request[call[c].request] = "answered"

NotMerged(c, d) == call[c].request = 0 \/ call[c].request # call[d].request

Clean(text) == \A i \in 1..Len(text) : text[i] # REPLACEMENT

\* C11: a completion text taken from a network response has every U+FFFD removed
\* before it is stored or returned: no history entry and no returned outcome
\* contains U+FFFD.
C11_NoReplacementCharacter ==
    /\ \A i \in 1..Len(suggestionsHistory) : Clean(suggestionsHistory[i].text)
    /\ finished.result.kind = "outcome" => Clean(finished.result.completion)
    /\ finished.fetched.got => Clean(finished.fetched.text)

\* C11 witness: the response held U+FFFD inside its text; the text was stored and
\* returned without it
C11_Witness ==
    /\ finished.fetched.got
    /\ \E i \in 1..Len(finished.fetched.choices) : ~Clean(finished.fetched.choices[i])
    /\ finished.result.kind = "outcome"
    /\ finished.result.completion = <<"a", "b">>
    /\ \E i \in 1..Len(suggestionsHistory) : suggestionsHistory[i].text = <<"a", "b">>

\* C12: initialize() never launches an unverified indexer binary: exec runs the
\* file at the target path only when that file is the complete result of a
\* verified download and version.json records the install as done (not while
\* its status is "downloading", not after an install that ended "failed").
C12_NeverLaunchesUnverified ==
    /\ "execUnverified" \notin initCall.did
    /\ "execUnverified" \notin finishedInit.did

\* C13: when the process is still not running after startClient used all its
\* attempts, the call throws, the manager is not marked initialized and no
\* health-check timer is started.
C13_ExhaustedStartThrows ==
    "exhausted" \in finishedInit.did =>
        /\ finishedInit.result = "thrown"
        /\ "initialized" \notin finishedInit.did
        /\ "timer" \notin finishedInit.did

\* C14: with a provider other than "zgsm", a public operation fails with an
\* error that carries the __NEED_ZGSM__ tag: whenever the error an operation
\* throws is the one ensureClientInited raised for the provider, the caller
\* finds the tag on it.
C14_OperationsFailTagged ==
    /\ (lastOp.provider # "zgsm" /\ lastOp.error.message = "needZgsm") =>
          lastOp.error.tagged
    /\ (finishedInit.op = "restartClient" /\ finishedInit.provider # "zgsm"
          /\ finishedInit.error.message = "needZgsm") =>
          finishedInit.error.tagged

\* C15: with a provider other than "zgsm", checkAndUpgradeClient returns
\* "needZgsm" whatever version.json holds, stops no process and downloads
\* nothing (stated for the calls in which nothing else failed).
C15_NonZgsmReturnsNeedZgsm ==
    /\ (initCall.state # "-" /\ initCall.provider # "zgsm"
          /\ "failure" \notin initCall.did) =>
          initCall.state = "needZgsm"
    /\ (finishedInit.state # "-" /\ finishedInit.provider # "zgsm"
          /\ "failure" \notin finishedInit.did) =>
          /\ finishedInit.state = "needZgsm"
          /\ "stop" \notin finishedInit.did
          /\ "download" \notin finishedInit.did

\* C16: with provider "zgsm", checkAndUpgradeClient returns "failed" after any
\* error; without one it returns "firstInstall" (after a download) when the
\* manifest or the binary is absent, otherwise "upgraded" (after a download)
\* when the remote version is greater, otherwise "noUpdate" with no download.
C16_UpgradeDecision ==
    (finishedInit.state # "-" /\ finishedInit.provider = "zgsm") =>
        IF "failure" \in finishedInit.did
        THEN finishedInit.state = "failed"
        ELSE IF "missing" \in finishedInit.did
        THEN finishedInit.state = "firstInstall" /\ "download" \in finishedInit.did
        ELSE IF "newer" \in finishedInit.did
        THEN finishedInit.state = "upgraded" /\ "download" \in finishedInit.did
        ELSE finishedInit.state = "noUpdate" /\ "download" \notin finishedInit.did

\* C17: once an initialize() call has completed with the manager initialized,
\* and until restartClient is called, the manager stays initialized and every
\* later initialize() call returns at once: it constructs no client, runs no
\* version check, starts no process and creates no timer; there is never more
\* than one health-check timer.
C17_InitializeIdempotent ==
    /\ succeeded => manager.isInitialized
    /\ ~initCall.after
    /\ (finishedInit.op = "initialize" /\ finishedInit.after) =>
          /\ finishedInit.result = "returned"
          /\ finishedInit.did = {}
    /\ manager.timers <= 1
    /\ manager.isHealthCheckRunning <=> manager.timers = 1

\* C17 witness: an initialize() call made after a completed one has returned
\* without doing anything; one health-check timer is running
C17_Witness ==
    /\ finishedInit.op = "initialize"
    /\ finishedInit.after
    /\ finishedInit.result = "returned"
    /\ finishedInit.did = {}
    /\ manager.isInitialized
    /\ manager.timers = 1

\* a cancellation by name or by message, read off the caught value
CancellationType(e) ==
    /\ e.isError
    /\ \/ e.name = "AbortError"
       \/ \E word \in { <<"a","b","o","r","t","e","d">>,
                        <<"c","a","n","c","e","l","l","e","d">>,
                        <<"c","a","n","c","e","l","e","d">> } :
             \E i \in 1..Len(e.message) :
                 /\ i + Len(word) - 1 <= Len(e.message)
                 /\ SubSeq(e.message, i, i + Len(word) - 1) = word

C19_NetworkFailureFailsClosed ==
    finished.exit = "rejected" =>
        /\ finished.netCalls = 1
        /\ finished.result = Undefined

\* C20: a call issues at most one network request; it issues none when its
\* token is aborted at entry, when there are no credentials, when the token is
\* aborted during the debounce wait, or when the cache lookup hits, and in the
\* first three cases it returns undefined; a call that reaches the request
\* issued exactly one.
C20_AtMostOneRequest ==
    /\ \A r \in Slot : netCalls[r] <= 1
    /\ \A r \in Slot : pc[r] = "fetch" <=> netCalls[r] = 1
    /\ finished.netCalls <= 1
    /\ finished.exit \in {"entry", "credentials", "debounce", "cache"} =>
          finished.netCalls = 0
    /\ finished.exit \in {"entry", "credentials", "debounce"} =>
          finished.result = Undefined
    /\ finished.exit \in {"fetched", "rejected"} => finished.netCalls = 1

\* C20 witness: a call whose token was aborted during the debounce wait returned
\* undefined without a request, while another call has its request in flight
C20_Witness ==
    /\ finished.exit = "debounce"
    /\ finished.aborted
    /\ finished.netCalls = 0
    /\ finished.result = Undefined
    /\ \E r \in Slot : pc[r] = "fetch" /\ netCalls[r] = 1

(***************************************************************************)
(* WorkspaceEventMonitor (part_008): the event buffer and its flushes      *)
(***************************************************************************)
\* the position of the entry of a key in the buffer, 0 when it has none
RECURSIVE indexOfKey(_, _, _)
indexOfKey(buffer, key, i) ==
    IF i > Len(buffer) THEN 0
    ELSE IF buffer[i].key = key THEN i
    ELSE indexOfKey(buffer, key, i + 1)

has(buffer, key) == indexOfKey(buffer, key, 1) # 0

\* the stamp of the event the buffer holds under a key, 0 when it holds none
get(buffer, key) ==
    IF has(buffer, key) THEN buffer[indexOfKey(buffer, key, 1)].stamp ELSE 0

\* Map.prototype.set: an entry of the same key is replaced in place, a new
\* key is appended
setEvent_append(buffer, event) == Append(buffer, event)
setEvent(buffer, event) ==
    IF has(buffer, event.key)
    THEN [buffer EXCEPT ![indexOfKey(buffer, event.key, 1)] = event]
    ELSE Append(buffer, event)

scheduleFlush(m, at) == [m EXCEPT !.flushTimer = at + m.config.debounceMs]

\* flushEvents up to its await: nothing to send or no workspace leaves the
\* monitor as it is
flushEvents(m, at, workspace) ==
    IF Len(m.eventBuffer) = 0 THEN m
    ELSE IF ~workspace THEN m
    ELSE [m EXCEPT !.eventBuffer = <<>>, !.lastFlushTime = at, !.flushTimer = 0]

\* addEvent on st = [m, added, latestStamp, last]
addEvent(st, key, at, workspace) ==
    LET m == st.m
        stamp == st.added + 1
        m1 == [m EXCEPT !.eventBuffer = setEvent(m.eventBuffer, [key |-> key, stamp |-> stamp])]
        flushNow == /\ at - m.lastFlushTime < m.config.debounceMs
                    /\ Len(m1.eventBuffer) >= m.config.batchSize
        m2 == IF at - m.lastFlushTime >= m.config.debounceMs THEN scheduleFlush(m1, at)
              ELSE IF flushNow THEN flushEvents(m1, at, workspace)
              ELSE m1
    IN  [m |-> m2,
         added |-> stamp,
         latestStamp |-> [st.latestStamp EXCEPT ![key] = stamp],
         last |-> [key |-> key,
                   buffered |-> has(m.eventBuffer, key),
                   sizeBefore |-> Len(m.eventBuffer),
                   sizeAfter |-> Len(m2.eventBuffer),
                   stamp |-> stamp,
                   stored |-> get(m2.eventBuffer, key),
                   flushed |-> flushNow /\ workspace]]

\* sendEventsToServer (lines 600-658)
Senders == 1..MaxSendsInFlight

\* line 612: the loop goes on to another publishWorkspaceEvents call, or ends
loop(sending) ==
    IF sending.retryCount <= DEFAULT_CONFIG.maxRetries
    THEN [sending EXCEPT !.pc = "publish", !.attempts = sending.attempts + 1]
    ELSE [sending EXCEPT !.pc = "returned"]

\* sendEventsToServer is called by a flush; without events it returns at once
SendEventsToServer(s, empty) ==
    /\ send[s].pc = "idle"
    /\ \A t \in Senders : t < s => send[t].pc # "idle"
    /\ send' = [send EXCEPT ![s] = IF empty THEN [send[s] EXCEPT !.pc = "returned"]
                                   ELSE loop(send[s])]
    /\ UNCHANGED nonSend

\* publishWorkspaceEvents settles: success returns, a response with
\* success = false goes round the loop, an exception ends the call when 30 s
\* have passed or the retries are used up and otherwise waits
PublishSettles(s, outcome, overLimit) ==
    /\ send[s].pc = "publish"
    /\ outcome = "failure" => send[s].attempts < MaxPublishAttempts
    /\ send' = [send EXCEPT ![s] =
          CASE outcome = "success" -> [send[s] EXCEPT !.pc = "returned"]
            [] outcome = "failure" -> loop(send[s])
            [] OTHER ->
                 IF overLimit THEN [send[s] EXCEPT !.pc = "returned"]
                 ELSE IF send[s].retryCount < DEFAULT_CONFIG.maxRetries
                 THEN [send[s] EXCEPT !.pc = "delay",
                                      !.delayMs = IF DEFAULT_CONFIG.retryDelayMs * 2^send[s].retryCount < 10000
                                                  THEN DEFAULT_CONFIG.retryDelayMs * 2^send[s].retryCount
                                                  ELSE 10000]
                 ELSE [send[s] EXCEPT !.pc = "returned"]]
    /\ UNCHANGED nonSend

\* the delay is over: retryCount++ and round the loop
DelayDone(s) ==
    /\ send[s].pc = "delay"
    /\ send' = [send EXCEPT ![s] =
          loop([send[s] EXCEPT !.retryCount = send[s].retryCount + 1, !.delayMs = 0])]
    /\ UNCHANGED nonSend

NextSend ==
    \/ \E s \in Senders, empty \in BOOLEAN : SendEventsToServer(s, empty)
    \/ \E s \in Senders, outcome \in {"success", "failure", "throws"}, overLimit \in BOOLEAN :
          PublishSettles(s, outcome, overLimit)
    \/ \E s \in Senders : DelayDone(s)

SpecSend == Init /\ [][NextSend]_vars

MonitorState ==
    [m |-> monitor, added |-> eventsAdded, latestStamp |-> latestStamp, last |-> lastAdd]

MonitorBecomes(st) ==
    /\ monitor' = st.m
    /\ eventsAdded' = st.added
    /\ latestStamp' = st.latestStamp
    /\ lastAdd' = IF st.added = eventsAdded THEN NoAdd ELSE st.last

\* the forEach of a handler over its files: one addEvent for each uri of
\* scheme "file"
RECURSIVE addEach(_, _, _, _, _)
addEach(st, kind, uris, at, workspace) ==
    IF uris = <<>> THEN st
    ELSE LET uri == Head(uris)
             next == IF uri.scheme # "file" THEN st
                     ELSE addEvent(st, <<kind, uri.fsPath>>, at, workspace)
         IN  addEach(next, kind, Tail(uris), at, workspace)

\* what a handler call was given, and whether it left buffer, timer and
\* lastFlushTime as they were
Handled(name, uris) ==
    lastHandler' = [name |-> name,
                    enabled |-> monitor.config.enabled,
                    fileUris |-> Cardinality({i \in 1..Len(uris) : uris[i].scheme = "file"}),
                    kept |-> monitor' = monitor]

HandleDocumentOpen_always(uri) ==
    /\ eventsAdded < MaxMonitorEvents
    /\ MonitorBecomes(addEach(MonitorState, "open", <<uri>>, monitorNow, workspaceFolders))
    /\ Handled("handleDocumentOpen", <<uri>>)
    /\ UNCHANGED <<monitorNow, workspaceFolders>>
    /\ UNCHANGED nonMonitor

HandleDocumentOpen(uri) ==
    /\ eventsAdded < MaxMonitorEvents
    /\ MonitorBecomes(IF ~monitor.config.enabled THEN MonitorState
                      ELSE addEach(MonitorState, "open", <<uri>>, monitorNow, workspaceFolders))
    /\ Handled("handleDocumentOpen", <<uri>>)
    /\ UNCHANGED <<monitorNow, workspaceFolders>>
    /\ UNCHANGED nonMonitor

HandleFileDelete(files) ==
    /\ eventsAdded + Len(files) <= MaxMonitorEvents
    /\ MonitorBecomes(IF ~monitor.config.enabled THEN MonitorState
                      ELSE addEach(MonitorState, "delete", files, monitorNow, workspaceFolders))
    /\ Handled("handleFileDelete", files)
    /\ UNCHANGED <<monitorNow, workspaceFolders>>
    /\ UNCHANGED nonMonitor

\* the first workspace folder is added or removed, and the monitor is told
HandleWorkspaceChange ==
    /\ eventsAdded < MaxMonitorEvents
    /\ workspaceFolders' = ~workspaceFolders
    /\ LET kind == IF workspaceFolders THEN "workspace:close" ELSE "workspace:open"
       IN  MonitorBecomes(IF ~monitor.config.enabled THEN MonitorState
                          ELSE addEvent(MonitorState, <<kind, Folder>>, monitorNow, workspaceFolders'))
    /\ Handled("handleWorkspaceChange", <<>>)
    /\ UNCHANGED monitorNow
    /\ UNCHANGED nonMonitor

\* the callback of scheduleFlush's setTimeout
FlushTimerFires ==
    /\ monitor.flushTimer # 0
    /\ monitorNow >= monitor.flushTimer
    /\ monitor' = [flushEvents(monitor, monitorNow, workspaceFolders) EXCEPT !.flushTimer = 0]
    /\ UNCHANGED <<monitorNow, workspaceFolders, eventsAdded, latestStamp, lastAdd, lastHandler>>
    /\ UNCHANGED nonMonitor

updateConfig(newConfig) ==
    /\ monitor' = [monitor EXCEPT !.config.enabled = newConfig.enabled,
                                  !.config.batchSize = newConfig.batchSize]
    /\ monitor' # monitor
    /\ UNCHANGED <<monitorNow, workspaceFolders, eventsAdded, latestStamp, lastAdd, lastHandler>>
    /\ UNCHANGED nonMonitor

MonitorTimePasses ==
    /\ monitorNow + TickMs \in MonitorInstants
    /\ monitorNow' = monitorNow + TickMs
    /\ UNCHANGED <<monitor, workspaceFolders, eventsAdded, latestStamp, lastAdd, lastHandler>>
    /\ UNCHANGED nonMonitor

NextMonitor ==
    \/ \E uri \in EventUris : HandleDocumentOpen(uri)
    \/ \E files \in FileLists : HandleFileDelete(files)
    \/ HandleWorkspaceChange
    \/ FlushTimerFires
    \/ \E e \in BOOLEAN, b \in BatchSizes : updateConfig([enabled |-> e, batchSize |-> b])
    \/ MonitorTimePasses

SpecMonitor == Init /\ [][NextMonitor]_vars

(***************************************************************************)
(* Claims C21..C30                                                         *)
(***************************************************************************)
\* C21: when a provideInlineCompletionItems call has finished, by an outcome, by
\* undefined or by a thrown error, the registry of abort controllers holds no
\* entry for its completionId: the registry only holds ids of calls in flight
\* that created their own controller.
C21_FinishedCallDeregistered ==
    /\ finished.input.id # 0 => finished.input.id \notin abortControllers
    /\ \A id \in abortControllers :
          \E r \in Slot : InFlight(r) /\ input[r].id = id /\ ~input[r].ext

\* C21 witness: a call with its own controller, never cancelled, ended by
\* throwing, and its entry is gone
C21_Witness ==
    /\ finished.result.kind = "error"
    /\ ~finished.input.ext
    /\ ~finished.aborted
    /\ finished.input.id \notin abortControllers

\* C22: every install writes status "downloading" to version.json before its
\* download starts, and when the install has returned or thrown version.json
\* holds "downloaded" or "failed", never "downloading"; "downloaded" is there
\* only with a downloaded and verified file at the target path.
C22_InstallStatusWritten ==
    /\ initCall.pc = "download" =>
          versionJson.present /\ versionJson.status = "downloading"
    /\ ("download" \in finishedInit.did /\ initCall.pc # "download") =>
          versionJson.present /\ versionJson.status \in {"downloaded", "failed"}
    /\ (versionJson.present /\ versionJson.status = "downloaded") => binary = "verified"

\* C23: the health-check failure counter is zero after every successful tick
\* and after every restart attempt, whether restartClient returned or threw:
\* whenever a tick's restart attempt ends, the counter is zero.
C23_CounterResetAfterRestart ==
    [][\A p \in Ticks :
          (tick[p] \in {"ensure", "upgrade", "start"} /\ tick'[p] = "idle") =>
              healthCheckFailureCount' = 0]_vars

\* C24: a downloadClient call makes at most maxRetries + 1 HTTP attempts, one
\* after the other; it makes no attempt after one that succeeded; after failed
\* attempt a (from 0) it waits 1000 * 2^a ms before the next one; and when the
\* last allowed attempt fails it rejects with no further wait.
C24_BoundedRetries ==
    /\ attempt \in 0..maxRetries
    /\ requests <= maxRetries + 1
    /\ downloadPc \in {"request", "backoff", "verify", "chmod"} => requests = attempt + 1
    /\ downloadResult = "targetPath" => requests = attempt + 1
    /\ downloadPc = "backoff" => attempt < maxRetries /\ retryTimer = 1000 * 2^attempt
    /\ downloadPc # "backoff" => retryTimer = 0
    /\ (downloadResult = "rejected" /\ verified.outcome = "none") =>
          requests = maxRetries + 1

\* C24 witness: the call rejected after its last allowed attempt failed
C24_Witness ==
    /\ downloadResult = "rejected"
    /\ verified.outcome = "none"
    /\ requests = maxRetries + 1
    /\ retryTimer = 0

\* C25: when an attempt that follows a failed attempt starts, the target path
\* holds no bytes written by a failed attempt, whatever way that attempt failed.
C25_PartialFileDeleted ==
    (downloadPc = "request" /\ attempt > 0) => targetFile # "partial"

\* C26: after cancelDownload() was called while an attempt was in flight, that
\* request is aborted, the downloadClient call starts no further attempt and
\* it ends in failure without reaching the checksum verification or chmod.
C26_CancelStopsDownload ==
    cancelledAt > 0 =>
        /\ requests = cancelledAt
        /\ downloadPc = "request" => signal = "aborted"
        /\ downloadPc \notin {"verify", "chmod"}
        /\ downloadResult # "targetPath"

\* C27: when a new inline-completion request begins while the expectation of
\* a shown suggestion is pending, a rejection is recorded for that suggestion
\* and the expectation is cleared before a new one is set: no expectation is
\* replaced while its suggestion has neither been labelled accepted nor
\* rejected, and every suggestion whose expectation is gone has a label.
C27_RejectionBeforeOverwrite ==
    /\ overwritten = {}
    /\ \A id \in 1..(nextShown - 1) :
          id # expectedFor => id \in acceptedIds \cup rejectedIds

\* C28: a getIndexStatus call made less than one second after an earlier
\* successful call for the same workspace completed is answered with that
\* result and no new client request; a call made one second or more after it
\* completed is not answered from the completed result.
C28_RecentResultReused ==
    \A c \in Calls :
        call[c].pc # "idle" => (call[c].soonAfter <=> call[c].request = 0)

\* C29: startService returns only after it read a registry that lists
\* codebase-indexer with status "running", and serverHost is then that entry's
\* protocol and port; until then it tries again, after 5 s while the
\* accumulated wait is under 5 minutes and after 30 s from then on; and once the
\* registry reports the service running for good, the call returns.
C29_StartServicePolls ==
    /\ [](servicePc = "returned" =>
            /\ seen.file = "entry" /\ seen.status = "running"
            /\ serverHost = Host(seen.protocol, seen.port))
    /\ [](servicePc # "returned" => ~serverHost.set)
    /\ [](servicePc = "wait" =>
            pollTimer = IF retryTime < 300000 THEN 5000 ELSE 30000)
    /\ (<>[](registry.file = "entry" /\ registry.status = "running")
            => <>(servicePc = "returned"))

\* C29 witness: the call returned after more than five minutes of waiting
C29_Witness ==
    /\ servicePc = "returned"
    /\ retryTime > 300000
    /\ serverHost = Host("https", 8080)

\* C30: the buffer holds at most one event per key, and it is the last one
\* added under that key; an addEvent call for a key that is already buffered
\* replaces the buffered event and leaves the size of the buffer as it was,
\* unless that same call flushes the buffer, which then holds nothing.
C30_LatestEventPerKey ==
    /\ \A i, j \in 1..Len(monitor.eventBuffer) :
           monitor.eventBuffer[i].key = monitor.eventBuffer[j].key => i = j
    /\ \A i \in 1..Len(monitor.eventBuffer) :
           monitor.eventBuffer[i].stamp = latestStamp[monitor.eventBuffer[i].key]
    /\ (lastAdd.buffered /\ ~lastAdd.flushed) =>
           /\ lastAdd.sizeAfter = lastAdd.sizeBefore
           /\ lastAdd.stored = lastAdd.stamp
    /\ lastAdd.flushed => lastAdd.sizeAfter = 0 /\ lastAdd.stored = 0

C30_Witness ==
    /\ lastAdd.buffered
    /\ ~lastAdd.flushed
    /\ lastAdd.sizeBefore = 2
    /\ Len(monitor.eventBuffer) = 2
    /\ monitor.eventBuffer[1].key = lastAdd.key
    /\ monitor.eventBuffer[1].stamp = lastAdd.stamp

\* C30 as the specification words it: every addEvent call for a key that is
\* already buffered leaves the size of the buffer unchanged and the new
\* event in the buffer.
C30_SameKeyKeepsSize ==
    lastAdd.buffered =>
        /\ lastAdd.sizeAfter = lastAdd.sizeBefore
        /\ lastAdd.stored = lastAdd.stamp

\* C31: a handler called while config.enabled is false leaves the buffer (and
\* the timer and lastFlushTime) as it was, and so does a document or file
\* handler called with no URI of scheme "file".
C31_DisabledOrForeignAddsNothing ==
    /\ (lastHandler.name # "none" /\ ~lastHandler.enabled) => lastHandler.kept
    /\ (lastHandler.name \in {"handleDocumentOpen", "handleFileDelete"}
            /\ lastHandler.fileUris = 0) => lastHandler.kept

C31_Witness ==
    /\ lastHandler.name = "handleFileDelete"
    /\ ~lastHandler.enabled
    /\ lastHandler.fileUris = 2
    /\ lastHandler.kept
    /\ Len(monitor.eventBuffer) = 1

\* C32: no two entries of the suggestion history have the same text, prefix
\* and suffix, and an updateSuggestions call whose triple is already held
\* leaves the history as it was: same entries, same order, nothing evicted.
C32_NoDuplicateTriple ==
    /\ \A i, j \in 1..Len(suggestionsHistory) :
           (/\ suggestionsHistory[i].text = suggestionsHistory[j].text
            /\ suggestionsHistory[i].prefix = suggestionsHistory[j].prefix
            /\ suggestionsHistory[i].suffix = suggestionsHistory[j].suffix) => i = j
    /\ hLastUpdate.duplicate => hLastUpdate.kept

\* C32 witness: the full history was offered the triple of one of its entries
\* under another completionId and kept all 20 entries
C32_Witness ==
    /\ hLastUpdate.duplicate
    /\ hLastUpdate.kept
    /\ Len(suggestionsHistory) = MAX_SUGGESTIONS_HISTORY
    /\ Len(hLog) > MAX_SUGGESTIONS_HISTORY
    /\ hLastUpdate.recurring
    /\ \A i \in 1..Len(suggestionsHistory) :
           suggestionsHistory[i].completionId <= MAX_SUGGESTIONS_HISTORY + MaxExtraInserts

\* C33: a tick sets the failure counter to zero exactly when the process
\* lookup finds the indexer running and the health call reports success;
\* every other tick (a check fails, or the health call throws) adds exactly
\* one to the counter.
C33_TickSucceedsIffBoth ==
    lastTick.health # "none" =>
        IF lastTick.active /\ lastTick.health \in {"success", "true"}
        THEN lastTick.after = 0
        ELSE lastTick.after = lastTick.before + 1

\* C33 witness: the process was found running but the health call threw,
\* after two failures
C33_Witness ==
    /\ lastTick.health = "throws"
    /\ lastTick.active
    /\ lastTick.before = 2
    /\ lastTick.after = 3

\* C34: no completionId is recorded both as rejected and as accepted,
\* whatever the interleaving of completion requests, cache hits and accepted
\* edits.
C34_RejectedOrAcceptedNotBoth == acceptedIds \cap rejectedIds = {}

\* C35: at most one install-and-start sequence (checkAndUpgradeClient
\* followed by startClient) is in progress at any time, also when the
\* callbacks of the health-check timer overlap.
C35_OneInstallSequence ==
    Cardinality({p \in Ticks : tick[p] \in {"upgrade", "start"}}) <= 1

\* C36: the health-check timer started by initialize stays scheduled: when
\* no restart is in progress any more, whether the last one succeeded or
\* failed at some step, the timer is set.
C36_TimerSurvivesRestart ==
    (\A p \in Ticks : tick[p] \in {"idle", "health"}) => isHealthCheckRunning

\* the request created by call r has settled with an error
Failed(r) ==
    /\ request[r] \in {"failed", "answered"}
    /\ call[r].outcome = "error"

\* every call that shared a failed request gets the error, no error is held
\* in the recent-results cache and the failure changes nothing in it, the
\* in-flight map holds an entry only while its request is in flight, and the
\* first call made for the workspace after the failure starts a request of
\* its own
FailureUntraced ==
    /\ [](\A r \in Calls : Failed(r) =>
              \A c \in Calls : (call[c].pc # "idle" /\ call[c].request = r) =>
                  call[c].pc = "done" /\ call[c].outcome = "error")
    /\ [](\A w \in Workspaces : recentCompletedRequests[w].result # "error")
    /\ [](\A w \in Workspaces : pendingIndexStatusRequests[w] # 0 =>
              request[pendingIndexStatusRequests[w]] \in {"started", "sent"})
    /\ [](\A r \in Calls : Failed(r) =>
              \A c \in Calls :
                  (/\ c > r
                   /\ call[c].pc # "idle"
                   /\ call[c].workspace = call[r].workspace
                   /\ call[c].request # r
                   /\ \A d \in Calls : (r < d /\ d < c /\ call[d].workspace = call[r].workspace)
                          => call[d].request = r)
                  => call[c].request = c)
    /\ [][\A r \in Calls : (~Failed(r) /\ Failed(r)') =>
              /\ recentCompletedRequests' = recentCompletedRequests
              /\ pendingIndexStatusRequests'[call[r].workspace] = 0]_vars

C38_BoundedPublishAttempts ==
    \A s \in Senders : send[s].attempts <= DEFAULT_CONFIG.maxRetries + 1

\* C39: the buffer does not stay non-empty with no flush scheduled: whenever
\* it holds an event, a flush timer is pending (an immediate flush having
\* emptied it otherwise), so every buffered event is flushed even if no
\* further event is added.
C39_FlushAlwaysScheduled ==
    Len(monitor.eventBuffer) > 0 => monitor.flushTimer # 0

\* C40: once addEvent has returned the buffer holds no more than
\* config.batchSize events, whatever the time elapsed since the last flush.
C40_BufferWithinBatchSize ==
    [][eventsAdded' > eventsAdded =>
          Len(monitor'.eventBuffer) <= monitor'.config.batchSize]_vars

=============================================================================
